---- MODULE Spec2Model ----
(***************************************************************************)
(* Model of the TTS benchmark harness: BenchmarkRunner (skip predicate,    *)
(* latency sampler, provider loop, results merge) over a disk holding the  *)
(* results file and the audio artifacts.                                   *)
(*                                                                         *)
(* Numbers: latencies are integers (milliseconds); means, ratios and costs *)
(* are exact rationals <<numerator, denominator>> in lowest terms; a       *)
(* standard deviation is kept as the rational whose square root it is.     *)
(***************************************************************************)
EXTENDS Integers, Sequences, FiniteSets, TLC

(***************************************************************************)
(* Bounds of the model                                                     *)
(***************************************************************************)
\* the operations of one history: a construction and a save count one each,
\* a removal of an audio file two, a run the generate calls it can issue
MaxWork == 8
\* latency lists: any values up to MaxFree entries, then up to MaxTail
\* repetitions of the last one
MaxFree == 3
MaxTail == 19
\* character counts priced: 0..MaxChars, and the three projection volumes
MaxChars == 12

(***************************************************************************)
(* Python values                                                           *)
(***************************************************************************)
\* None, and an Optional[float] v as <<v>>
None == <<>>
EmptyDict == <<>>

Get(d, k, default) == IF k \in DOMAIN d THEN d[k] ELSE default

\* a JSON array; every other JSON value met here is an object (a dict)
JsonArray(items) == [array |-> items]
IsMapping(v) == "array" \notin DOMAIN v
\* bool(v) of a loaded JSON value
Truthy(v) == IF IsMapping(v) THEN v # EmptyDict ELSE v.array # <<>>

Range(s) == {s[j] : j \in 1..Len(s)}

RECURSIVE GCD(_, _)
GCD(a, b) == IF b = 0 THEN a ELSE GCD(b, a % b)

Abs(a) == IF a < 0 THEN -a ELSE a

\* the rational n/d (d > 0) in lowest terms
Rat(n, d) == LET g == GCD(Abs(n), d) IN <<n \div g, d \div g>>

RatAdd(a, b) == Rat(a[1] * b[2] + b[1] * a[2], a[2] * b[2])

RatLeq(a, b) == a[1] * b[2] <= b[1] * a[2]

RECURSIVE Sum(_)
Sum(s) == IF s = <<>> THEN 0 ELSE Head(s) + Sum(Tail(s))

RECURSIVE RatSum(_)
RatSum(s) == IF s = <<>> THEN Rat(0, 1) ELSE RatAdd(Head(s), RatSum(Tail(s)))

\* statistics.mean over rationals
RatMean(s) == LET t == RatSum(s) IN Rat(t[1], t[2] * Len(s))

RECURSIVE Insert(_, _)
Insert(x, s) ==
    IF s = <<>> THEN <<x>>
    ELSE IF x <= Head(s) THEN <<x>> \o s
    ELSE <<Head(s)>> \o Insert(x, Tail(s))

\* sorted(latencies): ascending
RECURSIVE sorted(_)
sorted(s) == IF s = <<>> THEN <<>> ELSE Insert(Head(s), sorted(Tail(s)))

RECURSIVE min(_)
min(s) == IF Len(s) = 1 THEN s[1]
          ELSE LET m == min(Tail(s)) IN IF s[1] <= m THEN s[1] ELSE m

RECURSIVE max(_)
max(s) == IF Len(s) = 1 THEN s[1]
          ELSE LET m == max(Tail(s)) IN IF s[1] >= m THEN s[1] ELSE m

\* statistics.mean
mean(s) == Rat(Sum(s), Len(s))

\* statistics.median: middle element, or the mean of the two middle ones
median(s) ==
    LET d == sorted(s)
        n == Len(s)
    IN  IF n % 2 = 1 THEN Rat(d[(n \div 2) + 1], 1)
        ELSE Rat(d[n \div 2] + d[(n \div 2) + 1], 2)

\* statistics.stdev (n - 1 denominator), as the variance it is the root of
stdev(s) ==
    LET n == Len(s)
        sq == [j \in 1..n |-> s[j] * s[j]]
    IN  [sqrt_of |-> Rat(n * Sum(sq) - Sum(s) * Sum(s), n * (n - 1))]

\* int(len(latencies) * 0.95): the double product truncated; it equals
\* floor(19 n / 20) for every n up to 200000
P95IndexBug(n) == n - 1
P95Index(n) == (19 * n) \div 20

P95(latencies) ==
    IF Len(latencies) > 1
    THEN sorted(latencies)[P95Index(Len(latencies)) + 1]
    ELSE latencies[1]

StdDev(latencies) ==
    IF Len(latencies) > 1 THEN stdev(latencies) ELSE [sqrt_of |-> Rat(0, 1)]

\* LatencyStats(...) as built by benchmark_sample
LatencyStats(latencies, ttfbs) ==
    [mean_ms |-> mean(latencies),
     median_ms |-> median(latencies),
     min_ms |-> min(latencies),
     max_ms |-> max(latencies),
     p95_ms |-> P95(latencies),
     std_dev_ms |-> StdDev(latencies),
     ttfb_mean_ms |-> IF ttfbs # <<>> THEN mean(ttfbs) ELSE None]

(***************************************************************************)
(* Providers, samples and adapter results                                  *)
(***************************************************************************)
\* keys of provider_map used here, in a fixed order
ProviderKeys == {"azure", "luxtts", "qwen3"}

\* ProviderConfig of each adapter: name (also spelled out in characters)
\* and supported_languages
ProviderConfig(key) ==
    CASE key = "azure" ->
           [name |-> "Azure TTS",
            chars |-> <<"A", "z", "u", "r", "e", " ", "T", "T", "S">>,
            supported_languages |->
                {"en", "zh", "es", "fr", "de", "ja", "ko", "multilingual"}]
      [] key = "luxtts" ->
           [name |-> "LuxTTS",
            chars |-> <<"L", "u", "x", "T", "T", "S">>,
            supported_languages |-> {"en"}]
      [] key = "qwen3" ->
           [name |-> "Qwen3-TTS",
            chars |-> <<"Q", "w", "e", "n", "3", "-", "T", "T", "S">>,
            supported_languages |->
                {"en", "zh", "ja", "ko", "de", "fr", "ru", "pt", "es", "it",
                 "multilingual"}]

UpperCase == <<"A", "B", "C", "D", "E", "F", "G", "H", "I", "J", "K", "L", "M",
               "N", "O", "P", "Q", "R", "S", "T", "U", "V", "W", "X", "Y", "Z">>
LowerCase == <<"a", "b", "c", "d", "e", "f", "g", "h", "i", "j", "k", "l", "m",
               "n", "o", "p", "q", "r", "s", "t", "u", "v", "w", "x", "y", "z">>

\* str.lower() on one character
lower(c) ==
    IF \E j \in 1..26 : UpperCase[j] = c
    THEN LowerCase[CHOOSE j \in 1..26 : UpperCase[j] = c]
    ELSE c

\* str.replace(old, new) for a one-character old; new is a character sequence
RECURSIVE replace(_, _, _)
replace(s, old, new) ==
    IF s = <<>> THEN <<>>
    ELSE (IF Head(s) = old THEN new ELSE <<Head(s)>>) \o replace(Tail(s), old, new)

\* as AudioDir, but one directory for every provider
AudioDirFlat(chars) == <<>>

\* provider.name.lower().replace(" ", "_").replace("-", "")
AudioDir(chars) ==
    replace(replace([j \in 1..Len(chars) |-> lower(chars[j])], " ", <<"_">>), "-", <<>>)

\* audio_dir / f"{sample_id}.wav"
AudioPath(key, sample_id) == <<AudioDir(ProviderConfig(key).chars), sample_id>>

\* CostCalculator.PRICING, USD per million characters
PRICING ==
    [n \in {"Azure TTS", "Azure Streaming", "ElevenLabs Standard",
            "ElevenLabs Turbo", "MiniMax", "MiniMax Streaming", "MiniMax PCM",
            "Qwen3-TTS", "Qwen3-TTS Streaming", "LuxTTS"} |->
        CASE n \in {"Azure TTS", "Azure Streaming"} -> 16
          [] n \in {"ElevenLabs Standard", "ElevenLabs Turbo"} -> 165
          [] n \in {"MiniMax", "MiniMax Streaming", "MiniMax PCM"} -> 60
          [] n \in {"Qwen3-TTS", "Qwen3-TTS Streaming"} -> 10
          [] n = "LuxTTS" -> 0]

NOTES ==
    [n \in DOMAIN PRICING |->
        CASE n = "Azure TTS" -> "en-US-AvaMultilingualNeural, non-streaming"
          [] n = "Azure Streaming" -> "en-US-AvaMultilingualNeural, streaming"
          [] n = "ElevenLabs Standard" -> "eleven_multilingual_v2, high quality"
          [] n = "ElevenLabs Turbo" -> "eleven_turbo_v2_5, low latency"
          [] n = "MiniMax" -> "speech-2.6-turbo, non-streaming"
          [] n = "MiniMax Streaming" -> "speech-2.6-turbo, streaming MP3"
          [] n = "MiniMax PCM" -> "speech-2.6-turbo, streaming PCM"
          [] n = "Qwen3-TTS" -> "qwen3-tts-flash, non-streaming"
          [] n = "Qwen3-TTS Streaming" -> "qwen3-tts-flash-realtime, streaming"
          [] n = "LuxTTS" -> "Local CPU - no API cost"]

\* as calculate_cost, with a fee of one dollar on every call
calculate_costWithFee(provider, characters) ==
    LET price_per_1m == Get(PRICING, provider, 0)
    IN  Rat(characters * price_per_1m + 1000000, 1000000)

\* CostCalculator.calculate_cost
calculate_cost(provider, characters) ==
    LET price_per_1m == Get(PRICING, provider, 0)
    IN  Rat(characters * price_per_1m, 1000000)

\* as get_projection, with the middle volume read as 50,000 characters
get_projectionSmallMiddle(provider) ==
    LET price_per_1m == Get(PRICING, provider, 0)
    IN  [provider |-> provider,
         per_1k_chars |-> Rat(price_per_1m, 1000),
         monthly_100k |-> Rat(100000 * price_per_1m, 1000000),
         monthly_500k |-> Rat(50000 * price_per_1m, 1000000),
         monthly_1m |-> Rat(price_per_1m, 1),
         notes |-> Get(NOTES, provider, "")]

\* CostCalculator.get_projection
get_projection(provider) ==
    LET price_per_1m == Get(PRICING, provider, 0)
    IN  [provider |-> provider,
         per_1k_chars |-> Rat(price_per_1m, 1000),
         monthly_100k |-> Rat(100000 * price_per_1m, 1000000),
         monthly_500k |-> Rat(500000 * price_per_1m, 1000000),
         monthly_1m |-> Rat(price_per_1m, 1),
         notes |-> Get(NOTES, provider, "")]

\* the test-text configuration: samples, then long_samples
S1 == [id |-> "s1", text |-> <<"H", "e", "l", "l", "o">>, language |-> "en",
       category |-> "general"]
S2 == [id |-> "s2", text |-> <<"n", "i", "h", "a", "o", "!">>, language |-> "zh",
       category |-> "general"]
S3 == [id |-> "s3", text |-> <<"O", "l", "a">>, language |-> "pt",
       category |-> "long"]

TestTextChoices == {<<S2, S3, S1>>}

\* the languages argument of run_benchmark (None: the default list)
DefaultLanguages == <<"en", "zh", "multilingual">>
LanguageChoices == {None, <<"en">>}

\* what an adapter's generate can return: TTSResult without the audio bytes
TTSResult(latency_ms, duration_seconds, sample_rate, ttfb_ms, text) ==
    [latency_ms |-> latency_ms, duration_seconds |-> duration_seconds,
     sample_rate |-> sample_rate, ttfb_ms |-> ttfb_ms, characters |-> Len(text)]

\* the (latency, duration, rate, ttfb) an adapter may measure on one call
Measurements ==
    {<<100, 1, 24000, None>>, <<200, 3, 16000, <<50>>>>, <<0, 2, 8000, <<0>>>>}
RunMeasurements == {<<100, 1, 24000, None>>}

\* TTSResult.realtime_factor
\* as realtime_factor, with the latency taken as seconds
realtime_factorPerMs(r) ==
    IF r.latency_ms <= 0 THEN Rat(0, 1)
    ELSE Rat(r.duration_seconds, r.latency_ms)

realtime_factor(r) ==
    IF r.latency_ms <= 0 THEN Rat(0, 1)
    ELSE Rat(r.duration_seconds * 1000, r.latency_ms)

\* TTSResult.chars_per_second
chars_per_second(r) ==
    IF r.latency_ms <= 0 THEN Rat(0, 1)
    ELSE Rat(r.characters * 1000, r.latency_ms)

(***************************************************************************)
(* State                                                                   *)
(***************************************************************************)
VARIABLES
    file,               \* metrics/benchmark_results.json: [exists, json]
    audio,              \* audio/<dir>/<sample_id>.wav: path -> saved TTSResult
    now,                \* datetime.now(), in ticks
    providers,          \* self.providers: provider keys in dict order
    iterations,         \* self.iterations
    warmup_runs,        \* self.warmup_runs
    skip_existing,      \* self.skip_existing
    results,            \* self.results: key -> ProviderBenchmark
    existing_results,   \* self._existing_results
    pc,                 \* where the process is
    test_texts,         \* run_benchmark argument
    languages,          \* run_benchmark: languages after the default
    filtered_texts,     \* run_benchmark local
    pi,                 \* position of the provider loop in providers
    si,                 \* position of the sample loop in filtered_texts
    provider_benchmark, \* run_benchmark local
    skipped_providers,  \* run_benchmark local
    ran_providers,      \* run_benchmark local
    i,                  \* benchmark_sample: loop index
    latencies,          \* benchmark_sample local
    ttfbs,              \* benchmark_sample local
    last_result,        \* benchmark_sample local: None or <<TTSResult>>
    ret,                \* what benchmark_sample returned (kind "result") or raised
    trace,              \* outcomes of the generate calls of this benchmark_sample
    calls,              \* generate calls issued in this run, per provider key
    work,               \* operations so far, counted as MaxWork says
    hist                \* history: what the last save_results left behind

disk == <<file, audio, now>>
object == <<providers, iterations, warmup_runs, skip_existing, results,
            existing_results>>
runArgs == <<test_texts, languages, filtered_texts>>
runLocals == <<pi, si, provider_benchmark, skipped_providers, ran_providers>>
sampleLocals == <<i, latencies, ttfbs, last_result>>
vars == <<file, audio, now, providers, iterations, warmup_runs, skip_existing,
          results, existing_results, pc, test_texts, languages, filtered_texts,
          pi, si, provider_benchmark, skipped_providers, ran_providers,
          i, latencies, ttfbs, last_result, ret, trace, calls, work, hist>>

(***************************************************************************)
(* Records built by the runner                                             *)
(***************************************************************************)
\* BenchmarkResult(...) as returned by benchmark_sample
BenchmarkResult(key, sample, lats, tfs, last) ==
    LET name == ProviderConfig(key).name
    IN  [provider |-> name,
         sample_id |-> sample.id,
         text |-> sample.text,
         language |-> sample.language,
         category |-> sample.category,
         latency_stats |-> LatencyStats(lats, tfs),
         iterations |-> Len(lats),
         duration_seconds |-> IF last # None THEN last[1].duration_seconds ELSE 0,
         sample_rate |-> IF last # None THEN last[1].sample_rate ELSE 0,
         characters |-> Len(sample.text),
         realtime_factor |-> IF last # None THEN realtime_factor(last[1]) ELSE Rat(0, 1),
         chars_per_second |-> IF last # None THEN chars_per_second(last[1]) ELSE Rat(0, 1),
         cost_usd |-> calculate_cost(name, Len(sample.text)),
         audio_file |-> AudioPath(key, sample.id)]

\* ProviderBenchmark(provider=provider.name)
ProviderBenchmark(key) ==
    [provider |-> ProviderConfig(key).name,
     results |-> <<>>,
     total_latency_mean_ms |-> Rat(0, 1),
     total_cost_usd |-> Rat(0, 1),
     avg_realtime_factor |-> Rat(0, 1),
     languages_tested |-> <<>>]

\* the orders list(set(...)) can give a set of strings
ListsOf(S) ==
    {q \in [1..Cardinality(S) -> S] : \A a, b \in 1..Cardinality(S) : a # b => q[a] # q[b]}

\* as compute_aggregates, but the cost is that of the last result
compute_aggregatesLastCost(pb, order) ==
    IF pb.results = <<>> THEN pb
    ELSE [pb EXCEPT
            !.total_latency_mean_ms =
                RatMean([j \in 1..Len(pb.results) |-> pb.results[j].latency_stats.mean_ms]),
            !.total_cost_usd = pb.results[Len(pb.results)].cost_usd,
            !.avg_realtime_factor =
                RatMean([j \in 1..Len(pb.results) |-> pb.results[j].realtime_factor]),
            !.languages_tested = order]

\* ProviderBenchmark.compute_aggregates; order is the list(set(...)) drawn
compute_aggregates(pb, order) ==
    IF pb.results = <<>> THEN pb
    ELSE [pb EXCEPT
            !.total_latency_mean_ms =
                RatMean([j \in 1..Len(pb.results) |-> pb.results[j].latency_stats.mean_ms]),
            !.total_cost_usd =
                RatSum([j \in 1..Len(pb.results) |-> pb.results[j].cost_usd]),
            !.avg_realtime_factor =
                RatMean([j \in 1..Len(pb.results) |-> pb.results[j].realtime_factor]),
            !.languages_tested = order]

\* the dict save_results writes for one provider (results through to_dict)
EntryOf(benchmark) ==
    [total_latency_mean_ms |-> benchmark.total_latency_mean_ms,
     total_cost_usd |-> benchmark.total_cost_usd,
     avg_realtime_factor |-> benchmark.avg_realtime_factor,
     languages_tested |-> benchmark.languages_tested,
     results |-> benchmark.results]

(***************************************************************************)
(* BenchmarkRunner._provider_has_complete_results                          *)
(***************************************************************************)
\* as CheckEachTestText, but samples the provider does not support count
RECURSIVE CheckEachTestTextAnyLanguage(_, _, _, _, _, _)
CheckEachTestTextAnyLanguage(j, key, texts, langs, existing_samples, files) ==
    IF j > Len(texts) THEN TRUE
    ELSE LET sample == texts[j] IN
         IF sample.language \notin Range(langs)
           THEN CheckEachTestTextAnyLanguage(j + 1, key, texts, langs, existing_samples, files)
         ELSE IF sample.id \notin existing_samples THEN FALSE
         ELSE IF AudioPath(key, sample.id) \notin files THEN FALSE
         ELSE CheckEachTestTextAnyLanguage(j + 1, key, texts, langs, existing_samples, files)

\* the loop over test_texts, from position j on
RECURSIVE CheckEachTestText(_, _, _, _, _, _)
CheckEachTestText(j, key, texts, langs, existing_samples, files) ==
    IF j > Len(texts) THEN TRUE
    ELSE LET sample == texts[j] IN
         IF sample.language \notin Range(langs)
           THEN CheckEachTestText(j + 1, key, texts, langs, existing_samples, files)
         ELSE IF sample.language \notin ProviderConfig(key).supported_languages
           THEN CheckEachTestText(j + 1, key, texts, langs, existing_samples, files)
         ELSE IF sample.id \notin existing_samples THEN FALSE
         ELSE IF AudioPath(key, sample.id) \notin files THEN FALSE
         ELSE CheckEachTestText(j + 1, key, texts, langs, existing_samples, files)

\* the exception _provider_has_complete_results ends in, "none" if it returns:
\* .get on a value that is no dict, a list indexed by the provider key
SkipCheckError(existing_dict, key) ==
    IF ~IsMapping(existing_dict) THEN "AttributeError"
    ELSE LET persisted == Get(existing_dict, "providers", EmptyDict)
         IN  IF ~IsMapping(persisted) /\ key \in Range(persisted.array)
             THEN "TypeError"
             ELSE "none"

\* the value _provider_has_complete_results returns (FALSE where it raises)
provider_has_complete_results(existing_dict, files, key, texts, langs) ==
    IF SkipCheckError(existing_dict, key) # "none" THEN FALSE
    ELSE IF ~IsMapping(Get(existing_dict, "providers", EmptyDict)) THEN FALSE
    ELSE IF key \notin DOMAIN Get(existing_dict, "providers", EmptyDict) THEN FALSE
    ELSE LET existing == existing_dict["providers"][key]
             rs == Get(existing, "results", <<>>)
             existing_samples == {rs[j].sample_id : j \in 1..Len(rs)}
         IN  CheckEachTestText(1, key, texts, langs, existing_samples, files)

(***************************************************************************)
(* Initial state: the disk before the first process starts                 *)
(***************************************************************************)
\* an entry as an earlier run wrote it: one measured call per sample
EarlierEntry(key, texts) ==
    LET rs == [j \in 1..Len(texts) |->
                  BenchmarkResult(key, texts[j], <<200>>, <<50>>,
                      <<TTSResult(200, 3, 16000, <<50>>, texts[j].text)>>)]
        langs == [j \in 1..Len(texts) |-> texts[j].language]
    IN  EntryOf(compute_aggregates([ProviderBenchmark(key) EXCEPT !.results = rs], langs))

\* the snapshot an earlier run of azure and luxtts over <<S1, S2>> left
EarlierSnapshot ==
    [timestamp |-> 0,
     iterations |-> 1,
     providers |-> [k \in {"azure", "luxtts"} |->
                      IF k = "azure" THEN EarlierEntry(k, <<S1, S2>>)
                      ELSE EarlierEntry(k, <<S1>>)]]

EarlierAudio ==
    [q \in {AudioPath("azure", "s1"), AudioPath("azure", "s2"), AudioPath("luxtts", "s1")} |->
        TTSResult(200, 3, 16000, <<50>>, IF q[2] = "s1" THEN S1.text ELSE S2.text)]

\* results file missing, unreadable, holding JSON that is no snapshot (an
\* array; an object whose "providers" is an array), or left by an earlier run
InitialDisks ==
    {[file |-> [exists |-> FALSE, parses |-> FALSE, json |-> EmptyDict], audio |-> <<>>],
     [file |-> [exists |-> TRUE, parses |-> FALSE, json |-> EmptyDict], audio |-> <<>>],
     [file |-> [exists |-> TRUE, parses |-> TRUE, json |-> JsonArray(<<"azure">>)],
      audio |-> <<>>],
     [file |-> [exists |-> TRUE, parses |-> TRUE,
                json |-> [providers |-> JsonArray(<<"azure">>)]],
      audio |-> <<>>],
     [file |-> [exists |-> TRUE, parses |-> TRUE, json |-> EarlierSnapshot],
      audio |-> EarlierAudio]}

NoReturn == [kind |-> "none", value |-> <<>>]

\* history of the disk, for stating properties:
\*   saved    save_results calls of this runner since its inputs last changed
\*   fresh    the runner was constructed after the last save_results
\*   ok       providers the last saved run measured with every sample succeeding,
\*            no audio file having been removed since that run
\*   texts, langs, provs   arguments and providers of the last saved run
\*   removed  the audio files removed since the last run
\*   attempts the benchmark_sample calls made for the provider in hand, in
\*            order: the sample's id, whether a result came back, and what
\*            the adapter answered to each generate call
\*   requested, failing   the provider names given to the script, and those
\*            among them whose construction or initialize raised
\*   had      the providers with a record in self.results when the run in
\*            progress started
\*   others   writes of the results file by other processes so far
\*   before   the run in progress was preceded by exactly one removal, and
\*            with that file still in place every provider of the runner
\*            satisfied the skip predicate for the run's arguments
NoHistory ==
    [saved |-> 0, fresh |-> FALSE, ok |-> {}, texts |-> <<>>, langs |-> <<>>,
     provs |-> <<>>, removed |-> {}, before |-> FALSE, attempts |-> <<>>,
     requested |-> <<>>, failing |-> {}, others |-> 0, had |-> {}]

Init ==
    /\ \E d \in InitialDisks : file = d.file /\ audio = d.audio
    /\ now = 1
    /\ providers = <<>>
    /\ iterations = 0
    /\ warmup_runs = 0
    /\ skip_existing = TRUE
    /\ results = EmptyDict
    /\ existing_results = EmptyDict
    /\ pc = "new"
    /\ test_texts = <<>>
    /\ languages = <<>>
    /\ filtered_texts = <<>>
    /\ pi = 0
    /\ si = 0
    /\ provider_benchmark = ProviderBenchmark("azure")
    /\ skipped_providers = <<>>
    /\ ran_providers = <<>>
    /\ i = 0
    /\ latencies = <<>>
    /\ ttfbs = <<>>
    /\ last_result = None
    /\ ret = NoReturn
    /\ trace = <<>>
    /\ calls = [k \in ProviderKeys |-> 0]
    /\ work = 0
    /\ hist = NoHistory

(***************************************************************************)
(* Construction: BenchmarkRunner.__init__ and _load_existing_results       *)
(***************************************************************************)
ProviderLists ==
    {<<"azure", "luxtts">>, <<"luxtts", "azure">>, <<"azure", "luxtts", "qwen3">>}
\* (iterations, warmup_runs) a runner is constructed with
SamplerChoices == {<<1, 0>>, <<1, 1>>}
DeepSamplerChoices == {<<3, 1>>, <<2, 0>>, <<1, 2>>, <<0, 1>>}

\* as load_existing_results, but nothing is ever loaded
load_existing_resultsNothing(f) == EmptyDict

\* as load_existing_results, but what was read before the failure is kept
load_existing_resultsPartial(f) ==
    IF f.exists
    THEN IF f.parses THEN f.json ELSE [timestamp |-> 0]
    ELSE EmptyDict

\* json.load of the results file, {} when it is missing or does not load
load_existing_results(f) ==
    IF f.exists
    THEN IF f.parses THEN f.json ELSE EmptyDict
    ELSE EmptyDict

Construct(provs, iters, warm, skip) ==
    /\ pc \in {"new", "idle"}
    /\ work < MaxWork
    /\ providers' = provs
    /\ iterations' = iters
    /\ warmup_runs' = warm
    /\ skip_existing' = skip
    /\ results' = EmptyDict
    /\ existing_results' = load_existing_results(file)
    /\ pc' = "idle"
    /\ work' = work + 1
    /\ hist' = [hist EXCEPT !.saved = 0, !.fresh = TRUE]
    /\ test_texts' = <<>>
    /\ languages' = <<>>
    /\ filtered_texts' = <<>>
    /\ pi' = 0
    /\ si' = 0
    /\ provider_benchmark' = ProviderBenchmark("azure")
    /\ skipped_providers' = <<>>
    /\ ran_providers' = <<>>
    /\ calls' = [k \in ProviderKeys |-> 0]
    /\ UNCHANGED <<disk, sampleLocals, ret, trace>>

(***************************************************************************)
(* run_benchmark                                                           *)
(***************************************************************************)
total_runs == iterations + warmup_runs

\* as RunStart, but every test text is kept whatever its language
RunStartUnfiltered(texts, langs) ==
    /\ pc = "idle"
    /\ LET ls == IF langs = <<>> THEN DefaultLanguages ELSE langs
           ft == texts
           planned == Len(providers) * Len(ft) * total_runs
       IN  /\ work + planned <= MaxWork
           /\ work' = work + planned
           /\ hist' = [hist EXCEPT
                 !.saved = 0,
                 !.had = DOMAIN results,
                 !.before =
                    /\ Cardinality(hist.removed) = 1
                    /\ \A q \in Range(providers) :
                          provider_has_complete_results(
                              existing_results, DOMAIN audio \cup hist.removed,
                              q, texts, ls)]
           /\ languages' = ls
           /\ filtered_texts' = ft
    /\ test_texts' = texts
    /\ skipped_providers' = <<>>
    /\ ran_providers' = <<>>
    /\ pi' = 1
    /\ pc' = "provider"
    /\ calls' = [k \in ProviderKeys |-> 0]
    /\ UNCHANGED <<disk, object, si, provider_benchmark, sampleLocals, ret, trace>>

RunStart(texts, langs) ==
    /\ pc = "idle"
    /\ LET ls == IF langs = <<>> THEN DefaultLanguages ELSE langs
           ft == SelectSeq(texts, LAMBDA s : s.language \in Range(ls))
           planned == Len(providers) * Len(ft) * total_runs
       IN  /\ work + planned <= MaxWork
           /\ work' = work + planned
           /\ hist' = [hist EXCEPT
                 !.saved = 0,
                 !.had = DOMAIN results,
                 !.before =
                    /\ Cardinality(hist.removed) = 1
                    /\ \A q \in Range(providers) :
                          provider_has_complete_results(
                              existing_results, DOMAIN audio \cup hist.removed,
                              q, texts, ls)]
           /\ languages' = ls
           /\ filtered_texts' = ft
    /\ test_texts' = texts
    /\ skipped_providers' = <<>>
    /\ ran_providers' = <<>>
    /\ pi' = 1
    /\ pc' = "provider"
    /\ calls' = [k \in ProviderKeys |-> 0]
    /\ UNCHANGED <<disk, object, si, provider_benchmark, sampleLocals, ret, trace>>

\* as CanSkip, but only a snapshot taken with the same iterations counts
CanSkipSameIterations(key) ==
    /\ skip_existing
    /\ Get(existing_results, "iterations", iterations) = iterations
    /\ provider_has_complete_results(existing_results, DOMAIN audio, key,
                                     test_texts, languages)

\* the skip decision of the provider loop
CanSkip(key) ==
    /\ skip_existing
    /\ provider_has_complete_results(existing_results, DOMAIN audio, key,
                                     test_texts, languages)

\* the skip check of providers[pi] raises
SkipCheckFails(key) ==
    skip_existing /\ SkipCheckError(existing_results, key) # "none"

\* the exception leaves run_benchmark: nothing in it catches it
SkipCheckRaises ==
    /\ pc = "provider"
    /\ pi <= Len(providers)
    /\ SkipCheckFails(providers[pi])
    /\ pc' = "crashed"
    /\ ret' = [kind |-> SkipCheckError(existing_results, providers[pi]),
               value |-> <<>>]
    /\ UNCHANGED <<disk, object, runArgs, runLocals, sampleLocals, trace, calls,
                   work, hist>>

SkipProvider ==
    /\ pc = "provider"
    /\ pi <= Len(providers)
    /\ CanSkip(providers[pi])
    /\ skipped_providers' = Append(skipped_providers, providers[pi])
    /\ pi' = pi + 1
    /\ UNCHANGED <<disk, object, pc, runArgs, si, provider_benchmark, ran_providers,
                   sampleLocals, ret, trace, calls, work, hist>>

\* as BeginProvider, but the samples are appended to the benchmark in hand
BeginProviderCarryOver ==
    /\ pc = "provider"
    /\ pi <= Len(providers)
    /\ ~SkipCheckFails(providers[pi])
    /\ ~CanSkip(providers[pi])
    /\ ran_providers' = Append(ran_providers, providers[pi])
    /\ provider_benchmark' =
          [provider_benchmark EXCEPT !.provider = ProviderConfig(providers[pi]).name]
    /\ si' = 1
    /\ pc' = "sample"
    /\ hist' = [hist EXCEPT !.attempts = <<>>]
    /\ UNCHANGED <<disk, object, runArgs, pi, skipped_providers, sampleLocals,
                   ret, trace, calls, work>>

BeginProvider ==
    /\ pc = "provider"
    /\ pi <= Len(providers)
    /\ ~SkipCheckFails(providers[pi])
    /\ ~CanSkip(providers[pi])
    /\ ran_providers' = Append(ran_providers, providers[pi])
    /\ provider_benchmark' = ProviderBenchmark(providers[pi])
    /\ si' = 1
    /\ pc' = "sample"
    /\ hist' = [hist EXCEPT !.attempts = <<>>]
    /\ UNCHANGED <<disk, object, runArgs, pi, skipped_providers, sampleLocals,
                   ret, trace, calls, work>>

\* as SkipSample, but a sample whose result was loaded and whose audio file
\* exists is passed over as well
SkipSampleCovered ==
    /\ pc = "sample"
    /\ si <= Len(filtered_texts)
    /\ \/ filtered_texts[si].language
             \notin ProviderConfig(providers[pi]).supported_languages
       \/ /\ skip_existing
          /\ provider_has_complete_results(existing_results, DOMAIN audio,
                                           providers[pi], <<filtered_texts[si]>>,
                                           languages)
    /\ si' = si + 1
    /\ UNCHANGED <<disk, object, pc, runArgs, pi, provider_benchmark,
                   skipped_providers, ran_providers, sampleLocals, ret, trace,
                   calls, work, hist>>

\* the sample's language is not in supported_languages: continue
SkipSample ==
    /\ pc = "sample"
    /\ si <= Len(filtered_texts)
    /\ filtered_texts[si].language \notin ProviderConfig(providers[pi]).supported_languages
    /\ si' = si + 1
    /\ UNCHANGED <<disk, object, pc, runArgs, pi, provider_benchmark,
                   skipped_providers, ran_providers, sampleLocals, ret, trace,
                   calls, work, hist>>

\* as FinishProvider, but a benchmark without results is not stored
FinishProviderIfResults ==
    /\ pc = "sample"
    /\ si > Len(filtered_texts)
    /\ \E order \in ListsOf({provider_benchmark.results[j].language :
                                j \in 1..Len(provider_benchmark.results)}) :
          results' = IF provider_benchmark.results = <<>> THEN results
                     ELSE (providers[pi] :> compute_aggregates(provider_benchmark, order))
                          @@ results
    /\ pi' = pi + 1
    /\ pc' = "provider"
    /\ UNCHANGED <<disk, providers, iterations, warmup_runs, skip_existing,
                   existing_results, runArgs, si, provider_benchmark,
                   skipped_providers, ran_providers, sampleLocals, ret, trace,
                   calls, work, hist>>

\* compute_aggregates and self.results[provider_name] = provider_benchmark
FinishProvider ==
    /\ pc = "sample"
    /\ si > Len(filtered_texts)
    /\ \E order \in ListsOf({provider_benchmark.results[j].language :
                                j \in 1..Len(provider_benchmark.results)}) :
          results' = (providers[pi] :> compute_aggregates(provider_benchmark, order))
                     @@ results
    /\ pi' = pi + 1
    /\ pc' = "provider"
    /\ UNCHANGED <<disk, providers, iterations, warmup_runs, skip_existing,
                   existing_results, runArgs, si, provider_benchmark,
                   skipped_providers, ran_providers, sampleLocals, ret, trace,
                   calls, work, hist>>

RunReturn ==
    /\ pc = "provider"
    /\ pi > Len(providers)
    /\ pc' = "idle"
    /\ hist' = [hist EXCEPT !.removed = {}, !.before = FALSE]
    /\ UNCHANGED <<disk, object, runArgs, runLocals, sampleLocals, ret, trace,
                   calls, work>>

(***************************************************************************)
(* benchmark_sample                                                        *)
(***************************************************************************)
\* the language precondition: ValueError before any call
LanguageRejected(key, language) ==
    /\ language \notin ProviderConfig(key).supported_languages
    /\ language \in {"zh", "zh-CN", "zh-TW"}
    /\ "zh" \notin ProviderConfig(key).supported_languages

\* run_benchmark calls benchmark_sample(provider, sample)
BeginSample ==
    /\ pc = "sample"
    /\ si <= Len(filtered_texts)
    /\ filtered_texts[si].language \in ProviderConfig(providers[pi]).supported_languages
    /\ IF LanguageRejected(providers[pi], filtered_texts[si].language)
       THEN /\ ret' = [kind |-> "ValueError", value |-> <<>>]
            /\ pc' = "returned"
       ELSE /\ ret' = NoReturn
            /\ pc' = "call"
    /\ i' = 0
    /\ latencies' = <<>>
    /\ ttfbs' = <<>>
    /\ last_result' = None
    /\ trace' = <<>>
    /\ hist' = [hist EXCEPT
          !.attempts = Append(@, [id |-> filtered_texts[si].id, ok |-> FALSE,
                                  responses |-> <<>>])]
    /\ UNCHANGED <<disk, object, runArgs, runLocals, calls, work>>

\* as GenerateReturns, but the warmup calls are measured too
GenerateReturnsNoWarmup(m) ==
    /\ pc = "call"
    /\ i < total_runs
    /\ LET r == TTSResult(m[1], m[2], m[3], m[4], filtered_texts[si].text)
       IN  /\ last_result' = <<r>>
           /\ latencies' = Append(latencies, r.latency_ms)
           /\ ttfbs' = IF r.ttfb_ms # None
                       THEN Append(ttfbs, r.ttfb_ms[1]) ELSE ttfbs
           /\ trace' = Append(trace, <<r>>)
    /\ i' = i + 1
    /\ calls' = [calls EXCEPT ![providers[pi]] = @ + 1]
    /\ UNCHANGED <<disk, object, pc, runArgs, runLocals, ret, work, hist>>

\* as GenerateReturns, but the first result is kept as last_result
GenerateReturnsKeepFirst(m) ==
    /\ pc = "call"
    /\ i < total_runs
    /\ LET r == TTSResult(m[1], m[2], m[3], m[4], filtered_texts[si].text)
       IN  /\ last_result' = IF last_result = None THEN <<r>> ELSE last_result
           /\ IF i >= warmup_runs
              THEN /\ latencies' = Append(latencies, r.latency_ms)
                   /\ ttfbs' = IF r.ttfb_ms # None
                               THEN Append(ttfbs, r.ttfb_ms[1]) ELSE ttfbs
              ELSE UNCHANGED <<latencies, ttfbs>>
           /\ trace' = Append(trace, <<r>>)
    /\ i' = i + 1
    /\ calls' = [calls EXCEPT ![providers[pi]] = @ + 1]
    /\ UNCHANGED <<disk, object, pc, runArgs, runLocals, ret, work, hist>>

\* as GenerateReturns, but a result without ttfb_ms counts as a TTFB of 0
GenerateReturnsTtfbDefault(m) ==
    /\ pc = "call"
    /\ i < total_runs
    /\ LET r == TTSResult(m[1], m[2], m[3], m[4], filtered_texts[si].text)
       IN  /\ last_result' = <<r>>
           /\ IF i >= warmup_runs
              THEN /\ latencies' = Append(latencies, r.latency_ms)
                   /\ ttfbs' = IF r.ttfb_ms # None
                               THEN Append(ttfbs, r.ttfb_ms[1]) ELSE Append(ttfbs, 0)
              ELSE UNCHANGED <<latencies, ttfbs>>
           /\ trace' = Append(trace, <<r>>)
    /\ i' = i + 1
    /\ calls' = [calls EXCEPT ![providers[pi]] = @ + 1]
    /\ UNCHANGED <<disk, object, pc, runArgs, runLocals, ret, work, hist>>

\* one pass of the loop: provider.generate returns r
GenerateReturns(m) ==
    /\ pc = "call"
    /\ i < total_runs
    /\ LET r == TTSResult(m[1], m[2], m[3], m[4], filtered_texts[si].text)
       IN  /\ last_result' = <<r>>
           /\ IF i >= warmup_runs
              THEN /\ latencies' = Append(latencies, r.latency_ms)
                   /\ ttfbs' = IF r.ttfb_ms # None
                               THEN Append(ttfbs, r.ttfb_ms[1]) ELSE ttfbs
              ELSE UNCHANGED <<latencies, ttfbs>>
           /\ trace' = Append(trace, <<r>>)
    /\ i' = i + 1
    /\ calls' = [calls EXCEPT ![providers[pi]] = @ + 1]
    /\ UNCHANGED <<disk, object, pc, runArgs, runLocals, ret, work, hist>>

\* as GenerateRaises, but the failure ends the loop
GenerateRaisesBreak ==
    /\ pc = "call"
    /\ i < total_runs
    /\ i' = total_runs
    /\ trace' = Append(trace, None)
    /\ calls' = [calls EXCEPT ![providers[pi]] = @ + 1]
    /\ UNCHANGED <<disk, object, pc, runArgs, runLocals, latencies, ttfbs,
                   last_result, ret, work, hist>>

\* one pass of the loop: provider.generate raises
GenerateRaises ==
    /\ pc = "call"
    /\ i < total_runs
    /\ i' = i + 1
    /\ trace' = Append(trace, None)
    /\ calls' = [calls EXCEPT ![providers[pi]] = @ + 1]
    /\ UNCHANGED <<disk, object, pc, runArgs, runLocals, latencies, ttfbs,
                   last_result, ret, work, hist>>

\* as FinishSample, but the audio is saved before the latencies are looked at
FinishSampleSaveFirst ==
    /\ pc = "call"
    /\ i >= total_runs
    /\ audio' = IF last_result # None
                THEN (AudioPath(providers[pi], filtered_texts[si].id) :> last_result[1])
                     @@ audio
                ELSE audio
    /\ ret' = IF latencies = <<>>
              THEN [kind |-> "RuntimeError", value |-> <<>>]
              ELSE [kind |-> "result",
                    value |-> <<BenchmarkResult(providers[pi], filtered_texts[si],
                                                latencies, ttfbs, last_result)>>]
    /\ pc' = "returned"
    /\ UNCHANGED <<file, now, object, runArgs, runLocals, sampleLocals, trace,
                   calls, work, hist>>

\* after the loop: RuntimeError, or statistics, save_audio and the result
FinishSample ==
    /\ pc = "call"
    /\ i >= total_runs
    /\ IF latencies = <<>>
       THEN /\ ret' = [kind |-> "RuntimeError", value |-> <<>>]
            /\ UNCHANGED audio
       ELSE /\ audio' = IF last_result # None
                        THEN (AudioPath(providers[pi], filtered_texts[si].id) :> last_result[1])
                             @@ audio
                        ELSE audio
            /\ ret' = [kind |-> "result",
                       value |-> <<BenchmarkResult(providers[pi], filtered_texts[si],
                                                   latencies, ttfbs, last_result)>>]
    /\ pc' = "returned"
    /\ UNCHANGED <<file, now, object, runArgs, runLocals, sampleLocals, trace,
                   calls, work, hist>>

\* as HandleReturn, but an error ends the provider's sample loop
HandleReturnAbort ==
    /\ pc = "returned"
    /\ provider_benchmark' =
          IF ret.kind = "result"
          THEN [provider_benchmark EXCEPT !.results = Append(@, ret.value[1])]
          ELSE provider_benchmark
    /\ si' = IF ret.kind = "result" THEN si + 1 ELSE Len(filtered_texts) + 1
    /\ pc' = "sample"
    /\ ret' = NoReturn
    /\ trace' = <<>>
    /\ i' = 0
    /\ latencies' = <<>>
    /\ ttfbs' = <<>>
    /\ last_result' = None
    /\ hist' = [hist EXCEPT
          !.attempts[Len(hist.attempts)].ok = (ret.kind = "result"),
          !.attempts[Len(hist.attempts)].responses = trace]
    /\ UNCHANGED <<disk, object, runArgs, pi, skipped_providers, ran_providers,
                   calls, work>>

\* as HandleReturn, but a new result takes the place of the earlier ones
HandleReturnReplace ==
    /\ pc = "returned"
    /\ provider_benchmark' =
          IF ret.kind = "result"
          THEN [provider_benchmark EXCEPT !.results = <<ret.value[1]>>]
          ELSE provider_benchmark
    /\ si' = si + 1
    /\ pc' = "sample"
    /\ ret' = NoReturn
    /\ trace' = <<>>
    /\ i' = 0
    /\ latencies' = <<>>
    /\ ttfbs' = <<>>
    /\ last_result' = None
    /\ hist' = [hist EXCEPT
          !.attempts[Len(hist.attempts)].ok = (ret.kind = "result"),
          !.attempts[Len(hist.attempts)].responses = trace]
    /\ UNCHANGED <<disk, object, runArgs, pi, skipped_providers, ran_providers,
                   calls, work>>

\* back in run_benchmark: append the result, or print the error
HandleReturn ==
    /\ pc = "returned"
    /\ provider_benchmark' =
          IF ret.kind = "result"
          THEN [provider_benchmark EXCEPT !.results = Append(@, ret.value[1])]
          ELSE provider_benchmark
    /\ si' = si + 1
    /\ pc' = "sample"
    /\ ret' = NoReturn
    /\ trace' = <<>>
    /\ i' = 0
    /\ latencies' = <<>>
    /\ ttfbs' = <<>>
    /\ last_result' = None
    /\ hist' = [hist EXCEPT
          !.attempts[Len(hist.attempts)].ok = (ret.kind = "result"),
          !.attempts[Len(hist.attempts)].responses = trace]
    /\ UNCHANGED <<disk, object, runArgs, pi, skipped_providers, ran_providers,
                   calls, work>>

(***************************************************************************)
(* save_results                                                            *)
(***************************************************************************)
\* as MergedProviders, but the loaded entries are not copied
MergedProvidersOnlyNew(existing_dict, res) ==
    [k \in DOMAIN res |-> EntryOf(res[k])]

\* output["providers"]: the loaded entries, then this runner's results
\* as MergedProviders, but a record without results does not replace a
\* loaded entry
MergedProvidersKeepMeasured(existing_dict, res) ==
    LET copied == IF Truthy(existing_dict)
                  THEN Get(existing_dict, "providers", EmptyDict)
                  ELSE EmptyDict
    IN  [k \in (DOMAIN copied) \cup (DOMAIN res) |->
            IF k \in DOMAIN res /\ (res[k].results # <<>> \/ k \notin DOMAIN copied)
            THEN EntryOf(res[k]) ELSE copied[k]]

\* as MergedProviders, but the loaded results of samples the run did not
\* measure are kept in a replaced entry
MergedProvidersPerSample(existing_dict, res) ==
    LET copied == IF Truthy(existing_dict)
                  THEN Get(existing_dict, "providers", EmptyDict)
                  ELSE EmptyDict
        measured(k) == {res[k].results[j].sample_id : j \in 1..Len(res[k].results)}
    IN  [k \in (DOMAIN copied) \cup (DOMAIN res) |->
            IF k \in DOMAIN res
            THEN IF k \in DOMAIN copied
                 THEN [EntryOf(res[k]) EXCEPT
                         !.results = @ \o SelectSeq(copied[k].results,
                                         LAMBDA r : r.sample_id \notin measured(k))]
                 ELSE EntryOf(res[k])
            ELSE copied[k]]

MergedProviders(existing_dict, res) ==
    LET copied == IF Truthy(existing_dict)
                  THEN Get(existing_dict, "providers", EmptyDict)
                  ELSE EmptyDict
    IN  [k \in (DOMAIN copied) \cup (DOMAIN res) |->
            IF k \in DOMAIN res THEN EntryOf(res[k]) ELSE copied[k]]

\* the samples of the last run that concern a provider
Applicable(key, texts, langs) ==
    {texts[j] : j \in {n \in 1..Len(texts) :
        /\ texts[n].language \in Range(langs)
        /\ texts[n].language \in ProviderConfig(key).supported_languages}}

\* history: the last run produced a result for each of them
EverySampleSucceeded(key) ==
    /\ key \in DOMAIN results
    /\ \A sample \in Applicable(key, test_texts, languages) :
          \E j \in 1..Len(results[key].results) :
              results[key].results[j].sample_id = sample.id

\* the exception save_results ends in while copying the loaded providers,
\* "none" if it returns: .get or .items on a value that is no dict
SaveError(existing_dict) ==
    IF ~Truthy(existing_dict) THEN "none"
    ELSE IF ~IsMapping(existing_dict) THEN "AttributeError"
    ELSE IF ~IsMapping(Get(existing_dict, "providers", EmptyDict)) THEN "AttributeError"
    ELSE "none"

\* save_results raises before the file is opened for writing
SaveRaises ==
    /\ pc = "idle"
    /\ work < MaxWork
    /\ SaveError(existing_results) # "none"
    /\ pc' = "crashed"
    /\ ret' = [kind |-> SaveError(existing_results), value |-> <<>>]
    /\ work' = work + 1
    /\ UNCHANGED <<disk, object, runArgs, runLocals, sampleLocals, trace, calls,
                   hist>>

\* as SaveResults, but the results written are dropped from self.results
SaveResultsConsuming ==
    /\ pc = "idle"
    /\ work < MaxWork
    /\ SaveError(existing_results) = "none"
    /\ file' = [exists |-> TRUE, parses |-> TRUE,
                json |-> [timestamp |-> now,
                          iterations |-> iterations,
                          providers |-> MergedProviders(existing_results, results)]]
    /\ now' = now + 1
    /\ work' = work + 1
    /\ hist' = [hist EXCEPT
          !.saved = @ + 1,
          !.fresh = FALSE,
          !.ok = IF hist.removed = {}
                 THEN {k \in Range(ran_providers) : EverySampleSucceeded(k)}
                 ELSE {},
          !.texts = test_texts,
          !.langs = languages,
          !.provs = providers]
    /\ results' = EmptyDict
    /\ UNCHANGED <<audio, providers, iterations, warmup_runs, skip_existing,
                   existing_results, pc, runArgs, runLocals, sampleLocals, ret,
                   trace, calls>>

\* as SaveResults, but the file is read again and merged with what it holds
SaveResultsRereading ==
    /\ pc = "idle"
    /\ work < MaxWork
    /\ SaveError(existing_results) = "none"
    /\ file' = [exists |-> TRUE, parses |-> TRUE,
                json |-> [timestamp |-> now,
                          iterations |-> iterations,
                          providers |-> MergedProviders(load_existing_results(file),
                                                        results)]]
    /\ now' = now + 1
    /\ work' = work + 1
    /\ hist' = [hist EXCEPT
          !.saved = @ + 1,
          !.fresh = FALSE,
          !.ok = IF hist.removed = {}
                 THEN {k \in Range(ran_providers) : EverySampleSucceeded(k)}
                 ELSE {},
          !.texts = test_texts,
          !.langs = languages,
          !.provs = providers]
    /\ UNCHANGED <<audio, object, pc, runArgs, runLocals, sampleLocals, ret,
                   trace, calls>>

SaveResults ==
    /\ pc = "idle"
    /\ work < MaxWork
    /\ SaveError(existing_results) = "none"
    /\ file' = [exists |-> TRUE, parses |-> TRUE,
                json |-> [timestamp |-> now,
                          iterations |-> iterations,
                          providers |-> MergedProviders(existing_results, results)]]
    /\ now' = now + 1
    /\ work' = work + 1
    /\ hist' = [hist EXCEPT
          !.saved = @ + 1,
          !.fresh = FALSE,
          !.ok = IF hist.removed = {}
                 THEN {k \in Range(ran_providers) : EverySampleSucceeded(k)}
                 ELSE {},
          !.texts = test_texts,
          !.langs = languages,
          !.provs = providers]
    /\ UNCHANGED <<audio, object, pc, runArgs, runLocals, sampleLocals, ret,
                   trace, calls>>

(***************************************************************************)
(* The environment: an audio file is removed while no run is in progress   *)
(***************************************************************************)
RemoveAudio(path) ==
    /\ pc = "idle"
    /\ work + 2 <= MaxWork
    /\ path \in DOMAIN audio
    /\ audio' = [q \in (DOMAIN audio) \ {path} |-> audio[q]]
    /\ work' = work + 2
    /\ hist' = [hist EXCEPT !.ok = {}, !.removed = @ \cup {path}]
    /\ UNCHANGED <<file, now, object, pc, runArgs, runLocals, sampleLocals, ret,
                   trace, calls>>

Next ==
    \/ \E provs \in ProviderLists, sc \in SamplerChoices, skip \in BOOLEAN :
            Construct(provs, sc[1], sc[2], skip)
    \/ \E texts \in TestTextChoices, langs \in LanguageChoices :
            RunStart(texts, langs)
    \/ SkipCheckRaises
    \/ SkipProvider
    \/ BeginProvider
    \/ SkipSample
    \/ BeginSample
    \/ \E m \in RunMeasurements : GenerateReturns(m)
    \/ GenerateRaises
    \/ FinishSample
    \/ HandleReturn
    \/ FinishProvider
    \/ RunReturn
    \/ SaveResults
    \/ SaveRaises
    \/ \E path \in DOMAIN audio : RemoveAudio(path)

Spec == Init /\ [][Next]_vars

(***************************************************************************)
(* The sampler in depth: one process that runs one provider on one sample, *)
(* with every sampler setting and measurement, no skipping                 *)
(***************************************************************************)
NextSampler ==
    \/ \E key \in {"azure", "qwen3"}, sc \in DeepSamplerChoices :
            pc = "new" /\ Construct(<<key>>, sc[1], sc[2], FALSE)
    \/ \E texts \in {<<S1>>, <<S2>>} :
            results = EmptyDict /\ RunStart(texts, None)
    \/ BeginProvider
    \/ BeginSample
    \/ \E m \in Measurements : GenerateReturns(m)
    \/ GenerateRaises
    \/ FinishSample
    \/ HandleReturn
    \/ FinishProvider
    \/ RunReturn

SpecSampler == Init /\ [][NextSampler]_vars

(***************************************************************************)
(* Azure alone, run again and again by runners that skip what is complete, *)
(* with failing calls and audio files that disappear in between            *)
(***************************************************************************)
\* the languages argument: the default, or one with a language azure does
\* not support
RerunLanguageChoices == {None, <<"en", "zh", "pt">>}

NextRerun ==
    \/ \E sc \in SamplerChoices : Construct(<<"azure">>, sc[1], sc[2], TRUE)
    \/ \E texts \in TestTextChoices, langs \in RerunLanguageChoices :
            results = EmptyDict /\ RunStart(texts, langs)
    \/ SkipCheckRaises
    \/ SkipProvider
    \/ BeginProvider
    \/ SkipSample
    \/ BeginSample
    \/ \E m \in RunMeasurements : GenerateReturns(m)
    \/ GenerateRaises
    \/ FinishSample
    \/ HandleReturn
    \/ FinishProvider
    \/ RunReturn
    \/ SaveResults
    \/ SaveRaises
    \/ \E path \in DOMAIN audio : RemoveAudio(path)

SpecRerun == Init /\ [][NextRerun]_vars

(***************************************************************************)
(* One runner, and another process that saves its own results to the same  *)
(* results file in the meantime                                            *)
(***************************************************************************)
\* what the other process writes: its run of qwen3 over <<S1>>, merged with
\* nothing
OtherSnapshot ==
    [timestamp |-> 0,
     iterations |-> 1,
     providers |-> [k \in {"qwen3"} |-> EarlierEntry(k, <<S1>>)]]

\* save_results of the other process
OtherProcessSaves ==
    /\ pc \in {"idle", "provider"}
    /\ work < MaxWork
    /\ hist.others = 0
    /\ file' = [exists |-> TRUE, parses |-> TRUE, json |-> OtherSnapshot]
    /\ work' = work + 1
    /\ hist' = [hist EXCEPT !.others = @ + 1]
    /\ UNCHANGED <<audio, now, object, pc, runArgs, runLocals, sampleLocals, ret,
                   trace, calls>>

NextFile ==
    \/ \E provs \in {<<"luxtts">>, <<"azure">>}, skip \in BOOLEAN :
            pc = "new" /\ Construct(provs, 1, 0, skip)
    \/ \E texts \in TestTextChoices, langs \in LanguageChoices :
            RunStart(texts, langs)
    \/ SkipCheckRaises
    \/ SkipProvider
    \/ BeginProvider
    \/ SkipSample
    \/ BeginSample
    \/ \E m \in RunMeasurements : GenerateReturns(m)
    \/ GenerateRaises
    \/ FinishSample
    \/ HandleReturn
    \/ FinishProvider
    \/ RunReturn
    \/ SaveResults
    \/ SaveRaises
    \/ OtherProcessSaves

SpecFile == Init /\ [][NextFile]_vars

(***************************************************************************)
(* Runners that differ in iterations and warmup_runs, one after another on *)
(* the same output directory                                               *)
(***************************************************************************)
\* (iterations, warmup_runs) a runner is constructed with
SkipSamplerChoices == {<<1, 0>>, <<2, 1>>, <<3, 0>>}
SkipProviderLists == {<<"luxtts">>}

NextSkip ==
    \/ \E provs \in SkipProviderLists, sc \in SkipSamplerChoices, skip \in BOOLEAN :
            Construct(provs, sc[1], sc[2], skip)
    \/ \E texts \in TestTextChoices, langs \in LanguageChoices :
            results = EmptyDict /\ RunStart(texts, langs)
    \/ SkipCheckRaises
    \/ SkipProvider
    \/ BeginProvider
    \/ SkipSample
    \/ BeginSample
    \/ \E m \in RunMeasurements : GenerateReturns(m)
    \/ GenerateRaises
    \/ FinishSample
    \/ HandleReturn
    \/ FinishProvider
    \/ RunReturn
    \/ SaveResults
    \/ SaveRaises

SpecSkip == Init /\ [][NextSkip]_vars

(***************************************************************************)
(* Runs with every kind of measurement: one runner over one or two         *)
(* providers, its runs over several samples, and its saves                 *)
(***************************************************************************)
MeasuredProviderLists == {<<"azure">>, <<"luxtts", "azure">>}

NextMeasured ==
    \/ \E provs \in MeasuredProviderLists, sc \in SamplerChoices, skip \in BOOLEAN :
            pc = "new" /\ Construct(provs, sc[1], sc[2], skip)
    \/ \E texts \in TestTextChoices, langs \in LanguageChoices :
            results = EmptyDict /\ RunStart(texts, langs)
    \/ SkipCheckRaises
    \/ SkipProvider
    \/ BeginProvider
    \/ SkipSample
    \/ BeginSample
    \/ \E m \in Measurements : GenerateReturns(m)
    \/ GenerateRaises
    \/ FinishSample
    \/ HandleReturn
    \/ FinishProvider
    \/ RunReturn
    \/ SaveResults
    \/ SaveRaises

SpecMeasured == Init /\ [][NextMeasured]_vars

(***************************************************************************)
(* benchmark_sample called on its own: any provider of the runner with any *)
(* sample, the language not filtered beforehand                            *)
(***************************************************************************)
\* a sample in a regional variant of Chinese
S2Regional == [S2 EXCEPT !.id = "s2cn", !.language = "zh-CN"]

DirectSamples == {S1, S2, S2Regional, S3}

\* as SampleCall, but the language is not looked at
SampleCallUnchecked(key, sample) ==
    /\ pc = "idle"
    /\ key \in Range(providers)
    /\ work + total_runs <= MaxWork
    /\ work' = work + total_runs
    /\ pi' = CHOOSE j \in 1..Len(providers) : providers[j] = key
    /\ filtered_texts' = <<sample>>
    /\ si' = 1
    /\ ret' = NoReturn
    /\ pc' = "call"
    /\ i' = 0
    /\ latencies' = <<>>
    /\ ttfbs' = <<>>
    /\ last_result' = None
    /\ trace' = <<>>
    /\ UNCHANGED <<disk, object, test_texts, languages, provider_benchmark,
                   skipped_providers, ran_providers, calls, hist>>

\* benchmark_sample(provider, sample) is entered; its two parameters are
\* held as providers[pi] and filtered_texts[si], where the rest of the
\* method reads them
SampleCall(key, sample) ==
    /\ pc = "idle"
    /\ key \in Range(providers)
    /\ work + total_runs <= MaxWork
    /\ work' = work + total_runs
    /\ pi' = CHOOSE j \in 1..Len(providers) : providers[j] = key
    /\ filtered_texts' = <<sample>>
    /\ si' = 1
    /\ IF LanguageRejected(key, sample.language)
       THEN /\ ret' = [kind |-> "ValueError", value |-> <<>>]
            /\ pc' = "returned"
       ELSE /\ ret' = NoReturn
            /\ pc' = "call"
    /\ i' = 0
    /\ latencies' = <<>>
    /\ ttfbs' = <<>>
    /\ last_result' = None
    /\ trace' = <<>>
    /\ UNCHANGED <<disk, object, test_texts, languages, provider_benchmark,
                   skipped_providers, ran_providers, calls, hist>>

\* the result, or the exception, reaches the caller
SampleReturn ==
    /\ pc = "returned"
    /\ pc' = "idle"
    /\ UNCHANGED <<disk, object, runArgs, runLocals, sampleLocals, ret, trace,
                   calls, work, hist>>

NextSample ==
    \/ \E key \in {"azure", "luxtts"}, sc \in SamplerChoices :
            pc = "new" /\ Construct(<<key>>, sc[1], sc[2], FALSE)
    \/ \E key \in ProviderKeys, sample \in DirectSamples : SampleCall(key, sample)
    \/ \E m \in RunMeasurements : GenerateReturns(m)
    \/ GenerateRaises
    \/ FinishSample
    \/ SampleReturn

SpecSample == Init /\ [][NextSample]_vars

(***************************************************************************)
(* The statistics alone: latency lists are built and LatencyStats applied  *)
(***************************************************************************)
LatencyValues == {0, 100, 200}

InitStats ==
    /\ file = [exists |-> FALSE, parses |-> FALSE, json |-> EmptyDict]
    /\ audio = <<>>
    /\ now = 1
    /\ providers = <<>>
    /\ iterations = 0
    /\ warmup_runs = 0
    /\ skip_existing = TRUE
    /\ results = EmptyDict
    /\ existing_results = EmptyDict
    /\ pc = "stats"
    /\ test_texts = <<>>
    /\ languages = <<>>
    /\ filtered_texts = <<>>
    /\ pi = 0
    /\ si = 0
    /\ provider_benchmark = ProviderBenchmark("azure")
    /\ skipped_providers = <<>>
    /\ ran_providers = <<>>
    /\ i = 0
    /\ latencies = <<>>
    /\ ttfbs = <<>>
    /\ last_result = None
    /\ ret = NoReturn
    /\ trace = <<>>
    /\ calls = [k \in ProviderKeys |-> 0]
    /\ work = 0
    /\ hist = NoHistory

statsFrame == <<disk, object, runArgs, runLocals, i, ttfbs, last_result, trace,
                calls, work, hist>>

AppendLatency(v) ==
    /\ pc = "stats"
    /\ Len(latencies) < MaxFree
    /\ latencies' = Append(latencies, v)
    /\ ret' = NoReturn
    /\ UNCHANGED <<pc, statsFrame>>

RepeatLatency ==
    /\ pc = "stats"
    /\ latencies # <<>>
    /\ Len(latencies) < MaxFree + MaxTail
    /\ latencies' = Append(latencies, latencies[Len(latencies)])
    /\ ret' = NoReturn
    /\ UNCHANGED <<pc, statsFrame>>

ComputeStats ==
    /\ pc = "stats"
    /\ latencies # <<>>
    /\ ret.kind = "none"
    /\ ret' = [kind |-> "stats", value |-> <<LatencyStats(latencies, <<>>)>>]
    /\ UNCHANGED <<pc, latencies, statsFrame>>

NextStats ==
    \/ \E v \in LatencyValues : AppendLatency(v)
    \/ RepeatLatency
    \/ ComputeStats

SpecStats == InitStats /\ [][NextStats]_vars

(***************************************************************************)
(* The script run_evaluation.py: the providers are initialized, then one   *)
(* runner is constructed, runs once and saves                              *)
(***************************************************************************)
\* the names of provider_map that are modelled
provider_map == ProviderKeys

RequestedLists == {<<"azure", "luxtts">>, <<"bogus", "luxtts">>}
ScriptIterations == {1}

\* the providers dict after the initialization loop
Initialized(requested, failing) ==
    SelectSeq(requested, LAMBDA n : n \in provider_map /\ n \notin failing)

\* as MainStart, but one failing provider ends the script
MainStartAllOrNothing(requested, failing, iters, force) ==
    /\ pc = "new"
    /\ work < MaxWork
    /\ work' = work + 1
    /\ hist' = [hist EXCEPT !.saved = 0, !.fresh = TRUE,
                            !.requested = requested, !.failing = failing]
    /\ IF Initialized(requested, failing) = <<>> \/ failing \cap Range(requested) # {}
       THEN /\ pc' = "exited"
            /\ UNCHANGED <<object, runArgs, runLocals, calls>>
       ELSE /\ providers' = Initialized(requested, failing)
            /\ iterations' = iters
            /\ warmup_runs' = 1
            /\ skip_existing' = ~force
            /\ results' = EmptyDict
            /\ existing_results' = load_existing_results(file)
            /\ pc' = "idle"
            /\ test_texts' = <<>>
            /\ languages' = <<>>
            /\ filtered_texts' = <<>>
            /\ pi' = 0
            /\ si' = 0
            /\ provider_benchmark' = ProviderBenchmark("azure")
            /\ skipped_providers' = <<>>
            /\ ran_providers' = <<>>
            /\ calls' = [k \in ProviderKeys |-> 0]
    /\ UNCHANGED <<disk, sampleLocals, ret, trace>>

\* main(), up to the construction of the runner: unknown names are passed
\* over, a provider that fails to initialize is left out, sys.exit(1) when
\* none is left; warmup_runs keeps its default, skip_existing = not force
MainStart(requested, failing, iters, force) ==
    /\ pc = "new"
    /\ work < MaxWork
    /\ work' = work + 1
    /\ hist' = [hist EXCEPT !.saved = 0, !.fresh = TRUE,
                            !.requested = requested, !.failing = failing]
    /\ IF Initialized(requested, failing) = <<>>
       THEN /\ pc' = "exited"
            /\ UNCHANGED <<object, runArgs, runLocals, calls>>
       ELSE /\ providers' = Initialized(requested, failing)
            /\ iterations' = iters
            /\ warmup_runs' = 1
            /\ skip_existing' = ~force
            /\ results' = EmptyDict
            /\ existing_results' = load_existing_results(file)
            /\ pc' = "idle"
            /\ test_texts' = <<>>
            /\ languages' = <<>>
            /\ filtered_texts' = <<>>
            /\ pi' = 0
            /\ si' = 0
            /\ provider_benchmark' = ProviderBenchmark("azure")
            /\ skipped_providers' = <<>>
            /\ ran_providers' = <<>>
            /\ calls' = [k \in ProviderKeys |-> 0]
    /\ UNCHANGED <<disk, sampleLocals, ret, trace>>

NextMain ==
    \/ \E requested \in RequestedLists, failing \in SUBSET {"azure", "luxtts"},
          iters \in ScriptIterations, force \in BOOLEAN :
            MainStart(requested, failing, iters, force)
    \/ \E texts \in TestTextChoices, langs \in LanguageChoices :
            test_texts = <<>> /\ RunStart(texts, langs)
    \/ SkipCheckRaises
    \/ SkipProvider
    \/ BeginProvider
    \/ SkipSample
    \/ BeginSample
    \/ \E m \in RunMeasurements : GenerateReturns(m)
    \/ GenerateRaises
    \/ FinishSample
    \/ HandleReturn
    \/ FinishProvider
    \/ RunReturn
    \/ test_texts # <<>> /\ hist.saved = 0 /\ SaveResults
    \/ test_texts # <<>> /\ hist.saved = 0 /\ SaveRaises

SpecMain == Init /\ [][NextMain]_vars

(***************************************************************************)
(* The pure functions of the adapters' results and of the cost calculator  *)
(***************************************************************************)
LatencyInputs == {-100, -1, 0, 1, 100, 250}
DurationInputs == {-1, 0, 2, 3}
TextInputs == {<<>>, S1.text, S2.text}
ProviderNames == DOMAIN PRICING \cup {"Unknown TTS"}
CharacterInputs == 0..MaxChars \cup {100000, 500000, 1000000}

InitPure ==
    /\ file = [exists |-> FALSE, parses |-> FALSE, json |-> EmptyDict]
    /\ audio = <<>>
    /\ now = 1
    /\ providers = <<>>
    /\ iterations = 0
    /\ warmup_runs = 0
    /\ skip_existing = TRUE
    /\ results = EmptyDict
    /\ existing_results = EmptyDict
    /\ pc = "pure"
    /\ test_texts = <<>>
    /\ languages = <<>>
    /\ filtered_texts = <<>>
    /\ pi = 0
    /\ si = 0
    /\ provider_benchmark = ProviderBenchmark("azure")
    /\ skipped_providers = <<>>
    /\ ran_providers = <<>>
    /\ i = 0
    /\ latencies = <<>>
    /\ ttfbs = <<>>
    /\ last_result = None
    /\ ret = NoReturn
    /\ trace = <<>>
    /\ calls = [k \in ProviderKeys |-> 0]
    /\ work = 0
    /\ hist = NoHistory

pureFrame == <<disk, object, pc, runArgs, runLocals, i, latencies, ttfbs, trace,
               calls, work, hist>>

\* an adapter result is made and its two derived properties are read
ReadProperties(latency_ms, duration_seconds, text) ==
    /\ pc = "pure"
    /\ LET r == TTSResult(latency_ms, duration_seconds, 24000, None, text)
       IN  /\ last_result' = <<r>>
           /\ ret' = [kind |-> "properties",
                      value |-> <<[realtime_factor |-> realtime_factor(r),
                                   chars_per_second |-> chars_per_second(r)]>>]
    /\ UNCHANGED pureFrame

CalculateCost(provider, characters) ==
    /\ pc = "pure"
    /\ last_result' = None
    /\ ret' = [kind |-> "cost",
               value |-> <<[provider |-> provider, characters |-> characters,
                            cost |-> calculate_cost(provider, characters)]>>]
    /\ UNCHANGED pureFrame

GetProjection(provider) ==
    /\ pc = "pure"
    /\ last_result' = None
    /\ ret' = [kind |-> "projection", value |-> <<get_projection(provider)>>]
    /\ UNCHANGED pureFrame

NextPure ==
    \/ \E l \in LatencyInputs, d \in DurationInputs, t \in TextInputs :
          ReadProperties(l, d, t)
    \/ \E p \in ProviderNames, c \in CharacterInputs : CalculateCost(p, c)
    \/ \E p \in ProviderNames : GetProjection(p)

SpecPure == InitPure /\ [][NextPure]_vars

TypeOK ==
    /\ pc \in {"new", "idle", "provider", "sample", "call", "returned", "stats",
               "pure", "crashed", "exited"}
    /\ DOMAIN results \subseteq ProviderKeys
    /\ i <= total_runs

(***************************************************************************)
(* Properties                                                              *)
(***************************************************************************)
\* v stands at 0-based position k of the ascending order of s
AtSortedIndex(s, k, v) ==
    /\ Cardinality({j \in 1..Len(s) : s[j] < v}) <= k
    /\ k < Cardinality({j \in 1..Len(s) : s[j] <= v})
    /\ \E j \in 1..Len(s) : s[j] = v

\* floor(0.95 n)
Floor95(n) == CHOOSE k \in 0..n : 20 * k <= 19 * n /\ 19 * n < 20 * (k + 1)

\* C10: for every non-empty list of n measured latencies: when n > 1, p95_ms
\* is the element at index floor(0.95 n) of the ascending list, that index is
\* within bounds, and min_ms <= p95_ms <= max_ms; when n = 1, p95_ms is the
\* single latency and std_dev_ms is 0.
C10_P95 ==
    ret.kind = "stats" =>
        LET st == ret.value[1]
            n == Len(latencies)
        IN  /\ n > 1 =>
                /\ Floor95(n) \in 0..(n - 1)
                /\ AtSortedIndex(latencies, Floor95(n), st.p95_ms)
                /\ st.min_ms <= st.p95_ms
                /\ st.p95_ms <= st.max_ms
                /\ \A j \in 1..n : st.min_ms <= latencies[j] /\ latencies[j] <= st.max_ms
            /\ n = 1 =>
                /\ st.p95_ms = latencies[1]
                /\ st.std_dev_ms = [sqrt_of |-> <<0, 1>>]

\* a list long enough for index floor(0.95 n) not to be the last one, with a
\* p95 below the maximum
C10_Witness ==
    /\ ret.kind = "stats"
    /\ Len(latencies) > 20
    /\ ret.value[1].p95_ms < ret.value[1].max_ms
    /\ latencies[1] > latencies[2]

\* the calls of the current benchmark_sample that returned, among the calls
\* numbered from `first` (1-based) on
Succeeded(first) == {j \in first..Len(trace) : trace[j] # None}

\* the latencies of the measured calls that returned, in call order
MeasuredLatencies ==
    LET ok == SelectSeq(SubSeq(trace, warmup_runs + 1, Len(trace)), LAMBDA x : x # None)
    IN  [j \in 1..Len(ok) |-> ok[j][1].latency_ms]

\* C6: for a pair that passes the language precondition, benchmark_sample
\* issues exactly warmup_runs + iterations calls to generate however many of
\* them raise: a failed call is not retried and does not stop the others.
C6_CallCount ==
    /\ pc = "call" =>
          /\ Len(trace) = i
          /\ i <= warmup_runs + iterations
          /\ calls[providers[pi]] = i
    /\ (pc = "returned" /\ ret.kind # "ValueError") =>
          /\ Len(trace) = warmup_runs + iterations
          /\ calls[providers[pi]] = warmup_runs + iterations

\* a sample returned after a failed warmup call, a failed measured call and a
\* later call that succeeded
C6_Witness ==
    /\ pc = "returned"
    /\ warmup_runs >= 1
    /\ trace[1] = None
    /\ \E j \in (warmup_runs + 1)..Len(trace) :
          /\ trace[j] = None
          /\ \E k \in (j + 1)..Len(trace) : trace[k] # None

\* iterations and the statistics of a returned result come from exactly the
\* measured calls that returned
C7_General ==
    (pc = "returned" /\ ret.kind = "result") =>
        LET r == ret.value[1]
            M == MeasuredLatencies
        IN  /\ r.iterations = Cardinality(Succeeded(warmup_runs + 1))
            /\ r.iterations = Len(M)
            /\ M # <<>>
            /\ r.latency_stats.mean_ms = Rat(Sum(M), Len(M))
            /\ r.latency_stats.median_ms = median(M)
            /\ r.latency_stats.min_ms \in Range(M)
            /\ r.latency_stats.max_ms \in Range(M)
            /\ \A j \in 1..Len(M) : /\ r.latency_stats.min_ms <= M[j]
                                    /\ M[j] <= r.latency_stats.max_ms
            /\ r.latency_stats.p95_ms = P95(M)
            /\ r.latency_stats.std_dev_ms = StdDev(M)

\* 1 warmup + 3 measured calls, calls 1 and 2 (0-based) fail, the others return
C7_Scenario ==
    /\ pc = "returned"
    /\ warmup_runs = 1
    /\ iterations = 3
    /\ Len(trace) = 4
    /\ trace[1] # None
    /\ trace[2] = None
    /\ trace[3] = None
    /\ trace[4] # None

\* C7 as claimed: ... and the scenario gives iterations == 2
C7_Original ==
    /\ C7_General
    /\ C7_Scenario => (ret.kind = "result" /\ ret.value[1].iterations = 2)

\* C7, amended: BenchmarkResult.iterations is the number of calls with index
\* >= warmup_runs that succeeded and the latency statistics come from exactly
\* those calls; in the scenario the only measured success is call 3, so
\* iterations == 1.
C7_Iterations ==
    /\ C7_General
    /\ C7_Scenario => (ret.kind = "result" /\ ret.value[1].iterations = 1)

C7_Witness ==
    /\ C7_Scenario
    /\ ret.kind = "result"
    /\ ret.value[1].iterations = 1
    /\ ret.value[1].latency_stats.min_ms = trace[4][1].latency_ms

\* the last call, in call order, that returned
LastSuccess ==
    LET ok == Succeeded(1)
        last == CHOOSE j \in ok : \A k \in ok : k <= j
    IN  trace[last][1]

\* C9: duration_seconds, sample_rate, realtime_factor and chars_per_second of a
\* returned BenchmarkResult, and the audio that is persisted, come from the
\* last call in call order that succeeded, whatever the other latencies.
C9_LastSuccessful ==
    (pc = "returned" /\ ret.kind = "result") =>
        LET r == ret.value[1]
            L == LastSuccess
        IN  /\ r.duration_seconds = L.duration_seconds
            /\ r.sample_rate = L.sample_rate
            /\ r.realtime_factor = realtime_factor(L)
            /\ r.chars_per_second = chars_per_second(L)
            /\ r.audio_file \in DOMAIN audio
            /\ audio[r.audio_file] = L

\* a result whose last successful call is neither the first success, nor the
\* fastest one, nor the last call issued
C9_Witness ==
    /\ pc = "returned"
    /\ ret.kind = "result"
    /\ trace[Len(trace)] = None
    /\ \E j \in Succeeded(1) :
          /\ trace[j][1] # LastSuccess
          /\ trace[j][1].latency_ms < LastSuccess.latency_ms
    /\ ret.value[1].duration_seconds = LastSuccess.duration_seconds

\* ---------------------------------------------------------------------------
\* the merge written by save_results

Loaded == Get(existing_results, "providers", EmptyDict)

SaveStep == now' # now

\* C1: after any save_results the written providers map has exactly the keys
\* of the snapshot loaded at construction together with the providers this
\* runner processed; a processed provider's entry is the runner's record of it
\* and nothing else, and a loaded provider that was not processed (a skipped
\* one included) keeps the loaded entry unchanged.  The loaded snapshot is
\* fixed from construction on.
C1_MergeOnSave ==
    [][ /\ SaveStep =>
            LET saved == file'.json.providers IN
            /\ file'.exists /\ file'.parses
            /\ DOMAIN saved = DOMAIN Loaded \cup DOMAIN results
            /\ Range(ran_providers) \subseteq DOMAIN results
            /\ \A k \in DOMAIN results :
                  /\ DOMAIN saved[k] =
                        {"total_latency_mean_ms", "total_cost_usd",
                         "avg_realtime_factor", "languages_tested", "results"}
                  /\ saved[k].results = results[k].results
                  /\ saved[k].total_latency_mean_ms = results[k].total_latency_mean_ms
                  /\ saved[k].total_cost_usd = results[k].total_cost_usd
                  /\ saved[k].avg_realtime_factor = results[k].avg_realtime_factor
                  /\ saved[k].languages_tested = results[k].languages_tested
            /\ \A k \in DOMAIN Loaded \ DOMAIN results : saved[k] = Loaded[k]
            /\ \A k \in Range(skipped_providers) \ DOMAIN results :
                  k \in DOMAIN saved /\ saved[k] = Loaded[k]
        /\ (pc \notin {"new", "idle"} \/ SaveStep) =>
              existing_results' = existing_results
      ]_vars

\* a save has just carried one loaded provider forward untouched, because the
\* run skipped it, and replaced another loaded provider by a different record
C1_Witness ==
    /\ hist.saved = 1
    /\ \E a \in Range(skipped_providers), b \in Range(ran_providers) :
          /\ a \in DOMAIN Loaded \ DOMAIN results
          /\ b \in DOMAIN Loaded \cap DOMAIN results
          /\ file.json.providers[a] = Loaded[a]
          /\ file.json.providers[b] # Loaded[b]
          /\ file.json.providers[b].results = results[b].results

\* C2: a second save_results of the same runner, with the loaded snapshot and
\* the results unchanged in between, writes the same providers content as the
\* first: loaded providers that were not recomputed are unchanged, recomputed
\* ones carry the runner's record; the timestamp is the only difference.
C2_SaveTwice ==
    [][ (SaveStep /\ hist.saved >= 1) =>
            /\ file'.json.providers = file.json.providers
            /\ file'.json.iterations = file.json.iterations
            /\ DOMAIN file'.json = DOMAIN file.json
            /\ \A k \in DOMAIN Loaded \ DOMAIN results :
                  file'.json.providers[k] = Loaded[k]
            /\ \A k \in DOMAIN results :
                  file'.json.providers[k].results = results[k].results
      ]_vars

\* the file after the second of two saves: loaded {A, B}, the run recomputed
\* only B, and the two saves differ in their timestamps
C2_Witness ==
    /\ hist.saved = 2
    /\ \E a, b \in DOMAIN Loaded :
          /\ DOMAIN Loaded = {a, b}
          /\ a # b
          /\ DOMAIN results = {b}
          /\ ran_providers = <<b>>
          /\ file.json.providers[a] = Loaded[a]
          /\ file.json.providers[b] # Loaded[b]
          /\ file.json.providers[b].results = results[b].results
    /\ file.json.timestamp = now - 1

\* ---------------------------------------------------------------------------
\* the skip decision of run_benchmark

\* run_benchmark is about to decide on providers[pi]
Deciding == pc = "provider" /\ pi >= 1 /\ pi <= Len(providers)

\* the provider loop of run_benchmark has ended
LoopEnded == pc = "provider" /\ pi > Len(providers)

\* the loaded entry of key holds a result for every sample of texts that is in
\* langs and supported by the provider, and each such sample's audio file is
\* among files
Covered(key, texts, langs, files) ==
    /\ key \in DOMAIN Loaded
    /\ \A sample \in Applicable(key, texts, langs) :
          /\ \E j \in 1..Len(Loaded[key].results) :
                Loaded[key].results[j].sample_id = sample.id
          /\ AudioPath(key, sample.id) \in files

\* C3: with skip_existing enabled, a provider whose loaded entry has a result
\* and an audio file for every requested sample it supports is skipped as a
\* whole: the step that decides on it makes no generate call, leaves the result
\* set and the audio files alone and moves on to the next provider, and a
\* skipped provider has received no call when the run ends.
C3_SkipComplete ==
    /\ [][ (/\ Deciding
            /\ skip_existing
            /\ Covered(providers[pi], test_texts, languages, DOMAIN audio)) =>
              /\ calls' = calls
              /\ results' = results
              /\ audio' = audio
              /\ provider_benchmark' = provider_benchmark
              /\ skipped_providers' = Append(skipped_providers, providers[pi])
              /\ ran_providers' = ran_providers
              /\ pi' = pi + 1
              /\ pc' = "provider" ]_vars
    /\ [](pc \in {"provider", "sample", "call", "returned"} =>
             \A k \in Range(skipped_providers) : calls[k] = 0)

\* a run that skipped a covered provider, one that supports fewer languages
\* than were requested, and called another provider
C3_Witness ==
    /\ LoopEnded
    /\ skip_existing
    /\ \E k \in Range(skipped_providers), other \in Range(ran_providers) :
          /\ Covered(k, test_texts, languages, DOMAIN audio)
          /\ \E j \in 1..Len(test_texts) :
                /\ test_texts[j].language \in Range(languages)
                /\ test_texts[j].language \notin ProviderConfig(k).supported_languages
          /\ calls[k] = 0
          /\ calls[other] > 0

\* every provider of the runner satisfies the skip predicate
AllComplete(texts, langs, files) ==
    \A q \in Range(providers) :
        provider_has_complete_results(existing_results, files, q, texts, langs)

\* the arguments run_benchmark can be called with, languages defaulted
RunArguments ==
    {<<texts, IF langs = None THEN DefaultLanguages ELSE langs>> :
        texts \in TestTextChoices, langs \in LanguageChoices}

\* path is the audio file of a sample required for provider key
RequiredFor(key, path, texts, langs) ==
    \E sample \in Applicable(key, texts, langs) : path = AudioPath(key, sample.id)

\* C4: when every provider of the runner satisfies the skip predicate,
\* removing one audio file required for provider P makes the predicate false
\* for P and leaves it true for every other provider; the run_benchmark that
\* follows the removal, with skip_existing enabled, runs P and skips every
\* other provider.
C4_RemoveOneAudio ==
    /\ [][ \A a \in RunArguments, P \in Range(providers), path \in DOMAIN audio :
              (/\ pc = "idle"
               /\ DOMAIN audio' = DOMAIN audio \ {path}
               /\ RequiredFor(P, path, a[1], a[2])
               /\ AllComplete(a[1], a[2], DOMAIN audio)) =>
                  /\ ~provider_has_complete_results(existing_results', DOMAIN audio',
                                                    P, a[1], a[2])
                  /\ \A q \in Range(providers) \ {P} :
                        provider_has_complete_results(existing_results', DOMAIN audio',
                                                      q, a[1], a[2]) ]_vars
    /\ [](\A P \in Range(providers) :
            (/\ LoopEnded
             /\ skip_existing
             /\ hist.before
             /\ \E path \in hist.removed :
                   RequiredFor(P, path, test_texts, languages)) =>
                /\ ran_providers = <<P>>
                /\ calls[P] > 0
                /\ Range(skipped_providers) = Range(providers) \ {P}
                /\ \A q \in Range(providers) \ {P} : calls[q] = 0)

\* the end of a run that followed the removal of one required audio file:
\* the file's provider was run again, the other provider was skipped
C4_Witness ==
    /\ LoopEnded
    /\ skip_existing
    /\ hist.before
    /\ \E P \in Range(providers) :
          /\ \E path \in hist.removed :
                RequiredFor(P, path, test_texts, languages)
          /\ ran_providers = <<P>>
          /\ calls[P] > 0
          /\ skipped_providers # <<>>

\* ---------------------------------------------------------------------------
\* a second runner on the same output directory

\* the runner was constructed after the last save, with the saving runner's
\* providers followed by one more, and its run has the saved run's arguments
C5_Scenario ==
    /\ hist.fresh
    /\ pc \in {"provider", "sample", "call", "returned"}
    /\ hist.provs # <<>>
    /\ Len(providers) = Len(hist.provs) + 1
    /\ SubSeq(providers, 1, Len(hist.provs)) = hist.provs
    /\ providers[Len(providers)] \notin Range(hist.provs)
    /\ test_texts = hist.texts
    /\ languages = hist.langs

\* no call goes to a provider whose every applicable sample succeeded in the
\* saved run; when that is every earlier provider, only the new one is called
C5_NoCallToMeasured ==
    /\ \A P \in hist.ok : calls[P] = 0
    /\ (Range(hist.provs) \subseteq hist.ok) =>
          \A k \in ProviderKeys : calls[k] > 0 => k = providers[Len(providers)]
    /\ LoopEnded => hist.ok \subseteq Range(skipped_providers)

\* C5 as stated: after a run in which every applicable sample of P succeeded
\* and a save_results, a new runner on the same output directory, with the
\* same samples and languages and one more provider, makes no generate call
\* to P, whatever its skip_existing setting.
C5_Original == C5_Scenario => C5_NoCallToMeasured

\* C5: the same, for a new runner that has skip_existing enabled.
C5_NoRebilling == (C5_Scenario /\ skip_existing) => C5_NoCallToMeasured

\* the second runner's run has ended: the new provider was called, the
\* provider measured by the first runner was not
C5_Witness ==
    /\ C5_Scenario
    /\ skip_existing
    /\ LoopEnded
    /\ hist.ok # {}
    /\ \A P \in hist.ok : calls[P] = 0 /\ P \in Range(skipped_providers)
    /\ calls[providers[Len(providers)]] > 0
    /\ ran_providers = <<providers[Len(providers)]>>

\* ---------------------------------------------------------------------------
\* a sample with no successful measured call

\* the samples of the run that providers[p] supports
SupportedSamples(p) ==
    {j \in 1..Len(filtered_texts) :
        filtered_texts[j].language \in ProviderConfig(providers[p]).supported_languages}

\* C8: when no measured call succeeded, benchmark_sample ends in an error and
\* returns no BenchmarkResult, and writes no audio, whether or not a warmup
\* call succeeded; run_benchmark then adds nothing to the provider's results
\* and goes on with the next sample of the same provider; every provider that
\* was run has been called for each of its samples when the loop ends, and
\* every provider of the runner was either run or skipped.
C8_NoMeasuredSuccess ==
    /\ [][ /\ (pc = "call" /\ pc' = "returned" /\ Succeeded(warmup_runs + 1) = {}) =>
                /\ ret'.kind = "RuntimeError"
                /\ ret'.value = <<>>
                /\ audio' = audio
           /\ (pc = "returned" /\ ret.kind # "result") =>
                /\ provider_benchmark' = provider_benchmark
                /\ results' = results
                /\ calls' = calls
                /\ si' = si + 1
                /\ pi' = pi
                /\ pc' = "sample" ]_vars
    /\ [](LoopEnded =>
            /\ Range(ran_providers) \cup Range(skipped_providers) = Range(providers)
            /\ \A p \in 1..Len(providers) :
                  providers[p] \in Range(ran_providers) =>
                      /\ calls[providers[p]] =
                            Cardinality(SupportedSamples(p)) * total_runs
                      /\ providers[p] \in DOMAIN results)

\* a sample whose warmup call succeeded and whose measured call failed has
\* ended in an error, after an earlier provider of the same run lost every
\* sample that way and the run went on
C8_Witness ==
    /\ pc = "returned"
    /\ ret.kind = "RuntimeError"
    /\ warmup_runs >= 1
    /\ trace[1] # None
    /\ pi >= 2
    /\ calls[providers[1]] > 0
    /\ providers[1] \in DOMAIN results
    /\ results[providers[1]].results = <<>>

\* ---------------------------------------------------------------------------
\* derived properties of an adapter result, and costs

\* the rational v is the quotient n / d
IsQuotient(v, n, d) == v[2] > 0 /\ v[1] * d = n * v[2]

\* C11: for a result with latency_ms <= 0, realtime_factor and
\* chars_per_second are 0 whatever the duration and the character count; for
\* latency_ms > 0 they are duration_seconds / (latency_ms / 1000) and
\* characters / (latency_ms / 1000).
C11_DerivedProperties ==
    (pc = "pure" /\ ret.kind = "properties") =>
        LET r == last_result[1]
            v == ret.value[1]
        IN  /\ r.latency_ms <= 0 =>
                  /\ v.realtime_factor[1] = 0
                  /\ v.chars_per_second[1] = 0
            /\ r.latency_ms > 0 =>
                  /\ IsQuotient(v.realtime_factor,
                                r.duration_seconds * 1000, r.latency_ms)
                  /\ IsQuotient(v.chars_per_second,
                                r.characters * 1000, r.latency_ms)

\* a result with a negative latency, a duration and characters: both
\* properties have been read as 0
C11_Witness ==
    /\ pc = "pure"
    /\ ret.kind = "properties"
    /\ last_result[1].latency_ms < 0
    /\ last_result[1].duration_seconds > 0
    /\ last_result[1].characters > 0
    /\ ret.value[1].realtime_factor = <<0, 1>>
    /\ ret.value[1].chars_per_second = <<0, 1>>

\* C12: the cost of 2c characters is twice the cost of c characters for every
\* provider name and every c >= 0, the cost of 0 characters is 0, and a
\* provider name that is not in the price table costs 0.
C12_CostLinear ==
    (pc = "pure" /\ ret.kind = "cost") =>
        LET v == ret.value[1]
            twice == calculate_cost(v.provider, 2 * v.characters)
        IN  /\ twice[1] * v.cost[2] = 2 * v.cost[1] * twice[2]
            /\ v.characters = 0 => v.cost[1] = 0
            /\ v.provider \notin DOMAIN PRICING => v.cost[1] = 0
            /\ v.cost[2] > 0

\* a positive cost has been computed for a priced provider
C12_Witness ==
    /\ pc = "pure"
    /\ ret.kind = "cost"
    /\ ret.value[1].provider \in DOMAIN PRICING
    /\ ret.value[1].characters > 0
    /\ ret.value[1].cost[1] > 0

\* C13: the projection of every provider name has monthly_100k, monthly_500k
\* and monthly_1m equal to calculate_cost at 100,000, 500,000 and 1,000,000
\* characters and per_1k_chars equal to the price per million / 1000; for a
\* name that is not in the price table the four values are 0 and notes is "".
C13_ProjectionAgrees ==
    (pc = "pure" /\ ret.kind = "projection") =>
        LET v == ret.value[1]
            p == v.provider
        IN  /\ v.monthly_100k = calculate_cost(p, 100000)
            /\ v.monthly_500k = calculate_cost(p, 500000)
            /\ v.monthly_1m = calculate_cost(p, 1000000)
            /\ IsQuotient(v.per_1k_chars, Get(PRICING, p, 0), 1000)
            /\ p \notin DOMAIN PRICING =>
                  /\ v.per_1k_chars[1] = 0
                  /\ v.monthly_100k[1] = 0
                  /\ v.monthly_500k[1] = 0
                  /\ v.monthly_1m[1] = 0
                  /\ v.notes = ""

\* the projection of a provider with a price has been read
C13_Witness ==
    /\ pc = "pure"
    /\ ret.kind = "projection"
    /\ ret.value[1].provider \in DOMAIN PRICING
    /\ ret.value[1].monthly_500k[1] > 0
    /\ ret.value[1].notes # ""

\* ---------------------------------------------------------------------------
\* the results file at construction

\* a runner has been constructed by this step
ConstructStep ==
    /\ pc \in {"new", "idle"}
    /\ pc' = "idle"
    /\ now' = now
    /\ audio' = audio
    /\ work' = work + 1

\* C14: loading the persisted results never raises: the constructor returns,
\* with an empty loaded snapshot when the file is missing and when it exists
\* but cannot be read or parsed; the file is left as it was.
C14_LoadTolerant ==
    [][ /\ ConstructStep =>
            /\ ~file.exists => existing_results' = EmptyDict
            /\ (file.exists /\ ~file.parses) => existing_results' = EmptyDict
            /\ file' = file
            /\ ret' = NoReturn
        /\ pc = "new" => pc' \in {"new", "idle"} ]_vars

\* a runner constructed over a results file that does not parse
C14_Witness ==
    /\ pc = "idle"
    /\ providers # <<>>
    /\ file.exists
    /\ ~file.parses
    /\ existing_results = EmptyDict
    /\ hist.fresh

\* the results file is missing, does not parse, or holds no snapshot
NotASnapshot(f) ==
    \/ ~f.exists
    \/ ~f.parses
    \/ ~IsMapping(f.json)
    \/ ~IsMapping(Get(f.json, "providers", EmptyDict))

\* C15: whatever the results file holds (nothing, text that does not parse,
\* JSON that is no snapshot), the constructor, run_benchmark and save_results
\* return without raising.
C15_NeverFatal == NotASnapshot(file) => pc # "crashed"

\* ---------------------------------------------------------------------------
\* the sample loop of one provider

\* the ids of the first n filtered samples that providers[pi] supports
SupportedIds(n) ==
    LET first == SubSeq(filtered_texts, 1, n)
        sup == SelectSeq(first, LAMBDA t :
                  t.language \in ProviderConfig(providers[pi]).supported_languages)
    IN  [j \in 1..Len(sup) |-> sup[j].id]

IdsOf(rs) == [j \in 1..Len(rs) |-> rs[j].sample_id]

AttemptedIds == [j \in 1..Len(hist.attempts) |-> hist.attempts[j].id]

SucceededIds ==
    LET won == SelectSeq(hist.attempts, LAMBDA a : a.ok)
    IN  [j \in 1..Len(won) |-> won[j].id]

\* C16: for a provider that is not skipped, benchmark_sample is attempted for
\* every filtered sample whose language the provider supports, in sample
\* order, whatever became of the earlier attempts; the provider's results
\* hold exactly the samples whose attempt returned a result, in sample order,
\* and that list is what the run records for the provider.
C16_EverySampleAttempted ==
    /\ pc = "sample" =>
          /\ AttemptedIds =
                SupportedIds(IF si > Len(filtered_texts) THEN Len(filtered_texts)
                             ELSE si - 1)
          /\ IdsOf(provider_benchmark.results) = SucceededIds
    /\ pc \in {"call", "returned"} =>
          /\ AttemptedIds = SupportedIds(si)
          /\ IdsOf(provider_benchmark.results) = SucceededIds
    /\ (pc = "provider" /\ ran_providers # <<>>) =>
          LET last == ran_providers[Len(ran_providers)]
          IN  /\ last \in DOMAIN results
              /\ IdsOf(results[last].results) = SucceededIds

\* the sample loop of a provider has ended after a failed attempt that was
\* followed by a successful one
C16_Witness ==
    /\ pc = "sample"
    /\ si > Len(filtered_texts)
    /\ Len(hist.attempts) = 2
    /\ ~hist.attempts[1].ok
    /\ hist.attempts[2].ok
    /\ IdsOf(provider_benchmark.results) = <<hist.attempts[2].id>>

\* ---------------------------------------------------------------------------
\* what a provider's record is made of

\* the result benchmark_sample owes for a sample, from the adapter's answers
\* to its calls alone; None when no measured call was answered
ExpectedSampleResult(key, sample, responses) ==
    LET answered == {j \in 1..Len(responses) : responses[j] # None}
        measured == SelectSeq(SubSeq(responses, warmup_runs + 1, Len(responses)),
                              LAMBDA x : x # None)
        timed == SelectSeq(measured, LAMBDA x : x[1].ttfb_ms # None)
        lats == [j \in 1..Len(measured) |-> measured[j][1].latency_ms]
        tfs == [j \in 1..Len(timed) |-> timed[j][1].ttfb_ms[1]]
        last == responses[CHOOSE j \in answered : \A k \in answered : k <= j]
    IN  IF measured = <<>> THEN None
        ELSE <<BenchmarkResult(key, sample, lats, tfs, last)>>

\* the results list owed for the provider in hand, from its answers alone
RECURSIVE ExpectedResults(_, _)
ExpectedResults(key, attempts) ==
    IF attempts = <<>> THEN <<>>
    ELSE LET a == Head(attempts)
             sample == CHOOSE t \in Range(filtered_texts) : t.id = a.id
             r == ExpectedSampleResult(key, sample, a.responses)
         IN  r \o ExpectedResults(key, Tail(attempts))

\* the step that records the benchmark of providers[pi]
RecordStep == pc = "sample" /\ pc' = "provider"

\* C17: the record run_benchmark stores for a provider is made of the
\* provider's own adapter answers to the samples it supports among the
\* requested ones, and of nothing else: it does not depend on the position of
\* the provider in the providers map nor on what happened to other providers
\* (the order of languages_tested apart, which is that of a set); storing it
\* changes no other provider's record, and no other step of a run changes any
\* record.
C17_ProvidersIndependent ==
    [][ /\ RecordStep =>
            LET P == providers[pi]
                owed == ExpectedResults(P, hist.attempts)
                langs == {owed[j].language : j \in 1..Len(owed)}
            IN  /\ AttemptedIds = SupportedIds(Len(filtered_texts))
                /\ DOMAIN results' = DOMAIN results \cup {P}
                /\ results'[P].results = owed
                /\ \E order \in ListsOf(langs) :
                      results'[P] =
                          compute_aggregates(
                              [ProviderBenchmark(P) EXCEPT !.results = owed], order)
                /\ \A k \in DOMAIN results \ {P} : results'[k] = results[k]
        /\ (pc \in {"provider", "sample", "call", "returned"} /\ ~RecordStep) =>
              results' = results ]_vars

\* a run over the providers in the order luxtts, azure has ended: every call
\* to luxtts failed, and azure has results
C17_Witness ==
    /\ LoopEnded
    /\ providers[1] = "luxtts"
    /\ ran_providers = <<"luxtts", "azure">>
    /\ calls["luxtts"] > 0
    /\ results["luxtts"].results = <<>>
    /\ results["azure"].results # <<>>
    /\ results["azure"].results = ExpectedResults("azure", hist.attempts)

\* ---------------------------------------------------------------------------
\* the end of run_benchmark

InRun == pc \in {"provider", "sample", "call", "returned"}

\* run_benchmark has a step to take other than an exception leaving it:
\* the skip decision when the skip check returns, the end of the provider
\* loop, and whatever position of the sample loop and of the call loop
CanStep ==
    CASE pc = "provider" -> pi > Len(providers) \/ ~SkipCheckFails(providers[pi])
      [] pc = "sample" -> TRUE
      [] pc = "call" -> TRUE
      [] pc = "returned" -> TRUE
      [] OTHER -> FALSE

\* the steps run_benchmark can still take, at most
SampleSteps == total_runs + 3
ProviderSteps == Len(filtered_texts) * SampleSteps + 2
StepsLeft ==
    LET before == (Len(providers) - pi) * ProviderSteps + 1
    IN  CASE pc = "provider" -> before + ProviderSteps
          [] pc = "sample" -> before + (Len(filtered_texts) - si + 1) * SampleSteps + 1
          [] pc = "call" -> before + (Len(filtered_texts) - si) * SampleSteps
                               + (total_runs - i) + 3
          [] pc = "returned" -> before + (Len(filtered_texts) - si) * SampleSteps + 2
          [] OTHER -> 0

\* run_benchmark is never stuck and each of its steps brings the end nearer
RunProgress ==
    /\ [](InRun => CanStep)
    /\ [][InRun => (StepsLeft' < StepsLeft /\ StepsLeft' >= 0)]_vars

\* no more generate calls than providers x filtered samples x runs per sample
RunBounded ==
    [](InRun \/ pc = "idle" =>
          Sum([j \in 1..Len(providers) |-> calls[providers[j]]])
              <= Len(providers) * Len(filtered_texts) * total_runs)

\* no exception leaves run_benchmark
RunNeverRaises == [][InRun => pc' # "crashed"]_vars

\* C18: with at least one provider, and adapters whose generate calls return
\* or raise, run_benchmark always comes to its end and returns, no exception
\* leaving it, after at most |providers| * |filtered samples| *
\* (warmup_runs + iterations) generate calls.
C18_RunReturns == RunProgress /\ RunBounded /\ RunNeverRaises

\* ---------------------------------------------------------------------------
\* the initialization of the providers

\* the script has gone past the initialization of the providers
Started == pc # "new"

\* C19: a provider whose construction or initialize raises is left out of the
\* run, and the requested providers that did initialize are all in it, in the
\* order requested: each is run or skipped, and no call goes to a provider
\* left out.  When none initializes the script exits before a runner exists:
\* nothing is loaded from the results file, nothing is run, the file and the
\* audio stay as they were, and nothing happens afterwards.
C19_InitFailures ==
    /\ [](Started =>
            LET usable == Initialized(hist.requested, hist.failing)
            IN  /\ (usable = <<>>) <=> (pc = "exited")
                /\ pc # "exited" =>
                      /\ providers = usable
                      /\ Range(providers) \cap hist.failing = {}
                      /\ \A n \in Range(hist.requested) :
                            (n \in provider_map /\ n \notin hist.failing)
                                => n \in Range(providers)
                      /\ \A n \in hist.failing :
                            calls[n] = 0 /\ n \notin DOMAIN results
                /\ (pc # "exited" /\ LoopEnded) =>
                      Range(ran_providers) \cup Range(skipped_providers)
                          = Range(providers)
                /\ pc = "exited" =>
                      /\ providers = <<>>
                      /\ existing_results = EmptyDict
                      /\ results = EmptyDict
                      /\ test_texts = <<>>
                      /\ now = 1
                      /\ \A k \in ProviderKeys : calls[k] = 0)
    /\ [][pc' = "exited" => (file' = file /\ audio' = audio)]_vars
    /\ [][pc = "exited" => UNCHANGED vars]_vars

\* azure failed to initialize: the run has gone through with luxtts alone
C19_Witness ==
    /\ LoopEnded
    /\ hist.requested = <<"azure", "luxtts">>
    /\ hist.failing = {"azure"}
    /\ providers = <<"luxtts">>
    /\ ran_providers = <<"luxtts">>
    /\ calls["luxtts"] > 0
    /\ calls["azure"] = 0

\* ---------------------------------------------------------------------------
\* the language precondition of benchmark_sample

\* str.startswith("zh") on the language codes that occur
startswith_zh(language) == language \in {"zh", "zh-CN", "zh-TW"}

\* the sample's language is a Chinese code the provider does not cover
ChineseNotCovered(key, sample) ==
    /\ sample.language \notin ProviderConfig(key).supported_languages
    /\ startswith_zh(sample.language)
    /\ "zh" \notin ProviderConfig(key).supported_languages

\* benchmark_sample is entered
SampleEntered == pc = "idle" /\ pc' # "idle"

\* C20: when the sample's language is not among the provider's
\* supported_languages, starts with "zh", and "zh" is not supported either,
\* benchmark_sample raises ValueError at once: no generate call is issued
\* and no audio is written, neither before the error nor on account of it.
C20_FailFast ==
    /\ [][(SampleEntered /\ ChineseNotCovered(providers'[pi'], filtered_texts'[si']))
            => /\ pc' = "returned"
               /\ ret'.kind = "ValueError"
               /\ calls' = calls
               /\ audio' = audio
               /\ trace' = <<>>]_vars
    /\ []((pc = "returned" /\ ret.kind = "ValueError")
            => /\ ChineseNotCovered(providers[pi], filtered_texts[si])
               /\ trace = <<>>
               /\ latencies = <<>>
               /\ last_result = None
               /\ i = 0)
    /\ []((pc = "call" /\ i > 0)
            => ~ChineseNotCovered(providers[pi], filtered_texts[si]))

\* LuxTTS, which supports "en" only, was given the zh-CN sample after it had
\* answered the English one
C20_Witness ==
    /\ pc = "returned"
    /\ ret.kind = "ValueError"
    /\ providers[pi] = "luxtts"
    /\ filtered_texts[si] = S2Regional
    /\ calls["luxtts"] > 0
    /\ AudioPath("luxtts", "s1") \in DOMAIN audio
    /\ AudioPath("luxtts", "s2cn") \notin DOMAIN audio

\* ---------------------------------------------------------------------------
\* which samples a provider is called for

\* the sample in hand may be given to the provider in hand
Eligible(sample, key) ==
    /\ sample.language \in Range(languages)
    /\ sample.language \in ProviderConfig(key).supported_languages

\* the sample loop is at a sample the provider does not support
AtUnsupported ==
    /\ pc = "sample"
    /\ si <= Len(filtered_texts)
    /\ filtered_texts[si].language
          \notin ProviderConfig(providers[pi]).supported_languages

\* C21: in a run, generate is called only for the provider in hand and only
\* on a sample whose language is among the requested languages and among the
\* provider's supported_languages.  A sample in an unsupported language is
\* passed over: no call, no result, no audio, no error, no attempt, and the
\* loop moves to the next sample.  The provider's record holds results of
\* eligible samples only, and when every attempt succeeded it holds one
\* result for each sample the provider supports, the passed-over samples
\* taking nothing away from it.
C21_OnlyEligibleSamples ==
    /\ [](pc \in {"call", "returned"} => Eligible(filtered_texts[si], providers[pi]))
    /\ [][ /\ (InRun /\ calls' # calls) =>
                /\ pc = "call"
                /\ Eligible(filtered_texts[si], providers[pi])
                /\ \A k \in ProviderKeys \ {providers[pi]} : calls'[k] = calls[k]
           /\ AtUnsupported =>
                /\ calls' = calls
                /\ provider_benchmark' = provider_benchmark
                /\ results' = results
                /\ audio' = audio
                /\ ret' = ret
                /\ hist'.attempts = hist.attempts
                /\ si' = si + 1
                /\ pi' = pi
                /\ pc' = "sample"
           /\ RecordStep =>
                LET rs == results'[providers[pi]].results
                IN  /\ \A j \in 1..Len(rs) :
                          \E t \in Range(filtered_texts) :
                              /\ t.id = rs[j].sample_id
                              /\ Eligible(t, providers[pi])
                    /\ (\A j \in 1..Len(hist.attempts) : hist.attempts[j].ok)
                          => IdsOf(rs) = SupportedIds(Len(filtered_texts)) ]_vars

\* LuxTTS went through a run that asked for English and Chinese: the Chinese
\* sample was passed over, the English one measured, and the record stored
C21_Witness ==
    /\ pc = "provider"
    /\ pi >= 1
    /\ ran_providers # <<>>
    /\ ran_providers[Len(ran_providers)] = "luxtts"
    /\ S2 \in Range(filtered_texts)
    /\ S1 \in Range(filtered_texts)
    /\ calls["luxtts"] = total_runs
    /\ "luxtts" \in DOMAIN results
    /\ IdsOf(results["luxtts"].results) = <<"s1">>

\* ---------------------------------------------------------------------------
\* aggregates and results of a provider's record

\* the rational m is the mean of the rationals vs
IsMeanOf(m, vs) ==
    LET t == RatSum(vs) IN m[2] > 0 /\ m[1] * t[2] * Len(vs) = t[1] * m[2]

\* the aggregates of the record b (a ProviderBenchmark, or the entry written
\* for one) are those of its results; with no results they are zero and empty
AggregatesAgree(b) ==
    LET rs == b.results
        n == Len(rs)
    IN  IF n = 0
        THEN /\ b.total_latency_mean_ms = Rat(0, 1)
             /\ b.total_cost_usd = Rat(0, 1)
             /\ b.avg_realtime_factor = Rat(0, 1)
             /\ b.languages_tested = <<>>
        ELSE /\ IsMeanOf(b.total_latency_mean_ms,
                         [j \in 1..n |-> rs[j].latency_stats.mean_ms])
             /\ b.total_cost_usd = RatSum([j \in 1..n |-> rs[j].cost_usd])
             /\ IsMeanOf(b.avg_realtime_factor, [j \in 1..n |-> rs[j].realtime_factor])
             /\ Range(b.languages_tested) = {rs[j].language : j \in 1..n}
             /\ Len(b.languages_tested) = Cardinality(Range(b.languages_tested))

\* C22: every record in the runner's result set, at any moment, and every
\* entry save_results writes for such a record, has aggregates that agree
\* with its results list: the mean of the samples' mean latencies, the sum of
\* their costs, the mean of their realtime factors, their distinct languages
\* (zero and empty for a record without results); once stored, a record is
\* not changed by the rest of the run.
C22_AggregatesAgree ==
    /\ [](\A k \in DOMAIN results : AggregatesAgree(results[k]))
    /\ [][ /\ SaveStep =>
                \A k \in DOMAIN results : AggregatesAgree(file'.json.providers[k])
           /\ \A k \in DOMAIN results :
                (pc # "idle" /\ pc # "new") => (k \in DOMAIN results' /\ results'[k] = results[k])
         ]_vars

\* a saved record of azure with two results that differ in mean latency, in
\* cost, in realtime factor and in language
C22_Witness ==
    /\ hist.saved = 1
    /\ "azure" \in DOMAIN results
    /\ LET b == file.json.providers["azure"]
       IN  /\ b.results = results["azure"].results
           /\ Len(b.results) = 2
           /\ b.results[1].latency_stats.mean_ms # b.results[2].latency_stats.mean_ms
           /\ b.results[1].cost_usd # b.results[2].cost_usd
           /\ b.results[1].realtime_factor # b.results[2].realtime_factor
           /\ b.results[1].language # b.results[2].language
           /\ b.total_latency_mean_ms \notin {b.results[1].latency_stats.mean_ms,
                                              b.results[2].latency_stats.mean_ms}

\* ---------------------------------------------------------------------------
\* time to first byte

\* the ttfb_ms values of the measured calls that returned and reported one,
\* in call order
MeasuredTtfbs ==
    LET told == SelectSeq(SubSeq(trace, warmup_runs + 1, Len(trace)),
                          LAMBDA x : x # None /\ x[1].ttfb_ms # None)
    IN  [j \in 1..Len(told) |-> told[j][1].ttfb_ms[1]]

\* C23: in a returned result ttfb_mean_ms is None exactly when no measured
\* call that returned reported a ttfb_ms, and otherwise it is the mean of the
\* reported values of those calls alone (a reported 0 counts as a value);
\* calls that failed, calls that reported none and warmup calls contribute
\* nothing.  While the calls go on, ttfbs holds those values and no others.
C23_TtfbOnlyReported ==
    /\ pc = "call" => ttfbs = MeasuredTtfbs
    /\ (pc = "returned" /\ ret.kind = "result") =>
          LET t == ret.value[1].latency_stats.ttfb_mean_ms
              T == MeasuredTtfbs
          IN  /\ (t = None) <=> (T = <<>>)
              /\ T # <<>> => (t[2] > 0 /\ t[1] * Len(T) = Sum(T) * t[2])

\* a result whose TTFB mean is that of one measured call: the warmup call
\* reported another value, one measured call reported none and one failed
C23_Witness ==
    /\ pc = "returned"
    /\ ret.kind = "result"
    /\ warmup_runs = 1
    /\ Len(trace) = 4
    /\ trace[1] # None
    /\ trace[1][1].ttfb_ms = <<0>>
    /\ \E a, b, c \in 2..4 :
          /\ {a, b, c} = 2..4
          /\ trace[a] = None
          /\ trace[b] # None /\ trace[b][1].ttfb_ms = None
          /\ trace[c] # None /\ trace[c][1].ttfb_ms = <<50>>
    /\ ret.value[1].latency_stats.ttfb_mean_ms = Rat(50, 1)

\* ---------------------------------------------------------------------------
\* what the skip decision depends on

\* iteration counts a snapshot may record
SnapshotIterations == 0..4

\* the step taken from a deciding state skips the provider
Skips ==
    /\ pc' = "provider"
    /\ pi' = pi + 1
    /\ skipped_providers' = Append(skipped_providers, providers[pi])

\* C24: whether a provider is skipped is settled by skip_existing, the loaded
\* provider entries, the audio files, the test texts and the languages, and by
\* nothing else: not by the runner's iterations or warmup_runs, and not by the
\* iterations the loaded snapshot records.  The step that decides skips
\* exactly when skip_existing is set and the loaded entry covers the samples
\* asked of the provider, and the predicate gives the same answer whatever
\* iterations the snapshot records.
C24_SkipIgnoresIterations ==
    /\ [][ (Deciding /\ pc' # "crashed") =>
              (Skips <=> (/\ skip_existing
                          /\ Covered(providers[pi], test_texts, languages,
                                     DOMAIN audio))) ]_vars
    /\ [](Deciding =>
            \A n \in SnapshotIterations :
                IsMapping(existing_results) =>
                    provider_has_complete_results(
                        [k \in DOMAIN existing_results \cup {"iterations"} |->
                            IF k = "iterations" THEN n ELSE existing_results[k]],
                        DOMAIN audio, providers[pi], test_texts, languages)
                    = provider_has_complete_results(
                        existing_results, DOMAIN audio, providers[pi], test_texts,
                        languages))

\* a runner with three iterations and no warmup has skipped a provider on the
\* strength of a snapshot that a runner with two iterations saved
C24_Witness ==
    /\ pc = "provider"
    /\ skipped_providers # <<>>
    /\ iterations = 3
    /\ warmup_runs = 0
    /\ IsMapping(existing_results)
    /\ "iterations" \in DOMAIN existing_results
    /\ existing_results.iterations = 2
    /\ existing_results.timestamp > 0

\* ---------------------------------------------------------------------------
\* the accesses to the results file

\* another process has written the results file by this step
OtherWrote == hist'.others # hist.others

\* C25: the runner takes its snapshot of the results file once, when it is
\* constructed, and never again; it writes the file in save_results only,
\* never during run_benchmark; and what save_results writes is the merge of
\* that snapshot with the runner's results, whatever the file holds by then:
\* entries another process wrote after the construction are not in it.
C25_OneReadOneWrite ==
    [][ /\ existing_results' # existing_results =>
              /\ ConstructStep
              /\ existing_results' \in {EmptyDict, file.json}
              /\ (existing_results' # EmptyDict) => (file.exists /\ file.parses)
        /\ file' # file => (OtherWrote \/ (SaveStep /\ pc = "idle" /\ pc' = "idle"))
        /\ InRun => ~SaveStep
        /\ (InRun /\ ~OtherWrote) => file' = file
        /\ SaveStep =>
              /\ existing_results' = existing_results
              /\ DOMAIN file'.json.providers = DOMAIN Loaded \cup DOMAIN results
              /\ \A k \in DOMAIN Loaded \ DOMAIN results :
                    file'.json.providers[k] = Loaded[k]
              /\ \A k \in DOMAIN results :
                    file'.json.providers[k].results = results[k].results
      ]_vars

\* the runner has saved after another process wrote the file: the file now
\* holds the runner's snapshot and results, and the other process's entry
\* is gone
C25_Witness ==
    /\ hist.saved = 1
    /\ hist.others = 1
    /\ file.json.timestamp = now - 1
    /\ "qwen3" \notin DOMAIN file.json.providers
    /\ DOMAIN file.json.providers = DOMAIN Loaded \cup DOMAIN results
    /\ DOMAIN Loaded # {}
    /\ DOMAIN results # {}

\* ---------------------------------------------------------------------------
\* the result set of a run

\* as C26_EntryPerProvider, for every run: the result set holds the providers
\* that were run, and no others
C26_Original ==
    LoopEnded => DOMAIN results = Range(ran_providers)

\* C26: when the provider loop of a run ends, the result set holds the
\* records it held when the run started and one record for each provider the
\* run did not skip, a provider without a successful sample included; for a
\* run that started with an empty result set these are exactly the providers
\* that were run, and no skipped provider has a record.  A record is stored
\* by one step only, after the last of the provider's samples was processed,
\* once per provider in a run, and no other step of the run touches the
\* result set.
C26_EntryPerProvider ==
    /\ [](LoopEnded =>
            /\ DOMAIN results = hist.had \cup Range(ran_providers)
            /\ Range(ran_providers) \cap Range(skipped_providers) = {}
            /\ Range(ran_providers) \cup Range(skipped_providers) = Range(providers)
            /\ Len(ran_providers) = Cardinality(Range(ran_providers))
            /\ hist.had = {} =>
                  /\ DOMAIN results = Range(ran_providers)
                  /\ Range(skipped_providers) \cap DOMAIN results = {})
    /\ [][ InRun =>
              IF RecordStep
              THEN /\ si > Len(filtered_texts)
                   /\ AttemptedIds = SupportedIds(Len(filtered_texts))
                   /\ DOMAIN results' = DOMAIN results \cup {providers[pi]}
                   /\ \A j \in 1..(pi - 1) : providers[j] # providers[pi]
                   /\ \A k \in DOMAIN results \ {providers[pi]} : results'[k] = results[k]
              ELSE results' = results ]_vars

\* the first run of a runner has ended: one provider was skipped and has no
\* record, another received calls that all failed and has a record without
\* results
C26_Witness ==
    /\ LoopEnded
    /\ hist.had = {}
    /\ skipped_providers # <<>>
    /\ \E k \in Range(ran_providers) :
          /\ calls[k] > 0
          /\ k \in DOMAIN results
          /\ results[k].results = <<>>
    /\ \A k \in Range(skipped_providers) : k \notin DOMAIN results

\* ---------------------------------------------------------------------------
\* the representative result and the audio file of a sample

\* the position in trace (1-based) of the last call that returned
LastSuccessIndex ==
    CHOOSE j \in Succeeded(1) : \A k \in Succeeded(1) : k <= j

\* benchmark_sample ends by this step
SampleEnds == pc = "call" /\ pc' = "returned"

\* C27: the result whose duration, sample rate, realtime factor and
\* characters per second a returned BenchmarkResult carries, and whose audio
\* is saved, is the answer to a measured call, never to a warmup call.  The
\* audio is written by the step that ends benchmark_sample with a result,
\* after all warmup_runs + iterations calls were issued: that step writes the
\* file of the pair and no other file, and no other step writes audio; when
\* benchmark_sample ends in an error no audio file is written.
C27_RepresentativeMeasured ==
    /\ []((pc = "returned" /\ ret.kind = "result") =>
            LET r == ret.value[1]
                L == trace[LastSuccessIndex][1]
            IN  /\ LastSuccessIndex > warmup_runs
                /\ r.duration_seconds = L.duration_seconds
                /\ r.sample_rate = L.sample_rate
                /\ r.realtime_factor = realtime_factor(L)
                /\ r.chars_per_second = chars_per_second(L)
                /\ r.audio_file = AudioPath(providers[pi], filtered_texts[si].id)
                /\ audio[r.audio_file] = L)
    /\ [][ /\ audio' # audio =>
                /\ SampleEnds
                /\ ret'.kind = "result"
           /\ SampleEnds =>
                /\ Len(trace) = warmup_runs + iterations
                /\ calls' = calls
                /\ IF ret'.kind = "result"
                   THEN LET path == AudioPath(providers[pi], filtered_texts[si].id)
                        IN  /\ DOMAIN audio' = DOMAIN audio \cup {path}
                            /\ \A q \in DOMAIN audio \ {path} : audio'[q] = audio[q]
                   ELSE audio' = audio ]_vars

\* a result after two warmup calls that returned and one measured call: the
\* audio saved is the measured call's, which differs from the warmup ones
C27_Witness ==
    /\ pc = "returned"
    /\ ret.kind = "result"
    /\ warmup_runs = 2
    /\ Len(trace) = 3
    /\ trace[1] # None
    /\ trace[2] # None
    /\ trace[3] # trace[1]
    /\ trace[3] # trace[2]
    /\ audio[ret.value[1].audio_file] = trace[3][1]

\* ---------------------------------------------------------------------------
\* a provider that is run again

\* the entry save_results writes for a provider without a result
EmptyEntry ==
    [total_latency_mean_ms |-> Rat(0, 1),
     total_cost_usd |-> Rat(0, 1),
     avg_realtime_factor |-> Rat(0, 1),
     languages_tested |-> <<>>,
     results |-> <<>>]

\* the runner has a record of k without results, and loaded an entry of k
\* that has some
LostEverySample(k) ==
    /\ k \in DOMAIN results
    /\ results[k].results = <<>>
    /\ k \in DOMAIN Loaded
    /\ Loaded[k].results # <<>>

\* C28: when a provider with a loaded entry is run again and none of its
\* samples succeeds, save_results writes for it an entry with an empty
\* results list, zero aggregates and no languages; nothing of the loaded
\* entry is kept in the file, while the loaded entries of providers without
\* a record are kept.
C28_FailedRerunReplaces ==
    [][ SaveStep =>
          \A k \in DOMAIN results :
              LostEverySample(k) =>
                  /\ file'.json.providers[k] = EmptyEntry
                  /\ file'.json.providers[k] # Loaded[k]
                  /\ \A q \in DOMAIN Loaded \ DOMAIN results :
                        file'.json.providers[q] = Loaded[q] ]_vars

\* azure, whose loaded entry had two results, was called again and every
\* call failed; the saved file holds an empty entry for it
C28_Witness ==
    /\ hist.saved = 1
    /\ LostEverySample("azure")
    /\ Len(Loaded["azure"].results) = 2
    /\ calls["azure"] > 0
    /\ file.json.providers["azure"] = EmptyEntry
    /\ file.json.timestamp > 0

\* ---------------------------------------------------------------------------
\* a provider that is run again for fewer languages

\* the languages of the results of an entry
LanguagesOf(entry) == {entry.results[j].language : j \in 1..Len(entry.results)}

\* C29: the entry save_results writes for a provider the run measured holds
\* results for samples in the languages of that run only: the results the
\* loaded entry had for samples in other languages are not written back,
\* and languages_tested names no other language.  The loaded entries of the
\* providers without a record keep all their results, whatever their
\* languages.
C29_NarrowerLanguages ==
    [][ SaveStep =>
          /\ \A k \in Range(ran_providers) \cap DOMAIN results :
                LET entry == file'.json.providers[k]
                IN  /\ LanguagesOf(entry) \subseteq Range(languages)
                    /\ Range(entry.languages_tested) \subseteq Range(languages)
                    /\ k \in DOMAIN Loaded =>
                          \A j \in 1..Len(Loaded[k].results) :
                              Loaded[k].results[j].language \notin Range(languages) =>
                                  \A n \in 1..Len(entry.results) :
                                      entry.results[n].sample_id
                                          # Loaded[k].results[j].sample_id
          /\ \A q \in DOMAIN Loaded \ DOMAIN results :
                /\ file'.json.providers[q] = Loaded[q]
                /\ LanguagesOf(file'.json.providers[q]) = LanguagesOf(Loaded[q])
      ]_vars

\* azure, loaded with an English and a Chinese result, was run again for
\* English alone and saved: its entry now has the English result only, and
\* the loaded entry of luxtts is as it was
C29_Witness ==
    /\ hist.saved = 1
    /\ languages = <<"en">>
    /\ "azure" \in DOMAIN results
    /\ "azure" \in DOMAIN Loaded
    /\ LanguagesOf(Loaded["azure"]) = {"en", "zh"}
    /\ IdsOf(file.json.providers["azure"].results) = <<"s1">>
    /\ file.json.providers["azure"].languages_tested = <<"en">>
    /\ "luxtts" \in DOMAIN Loaded \ DOMAIN results
    /\ file.json.providers["luxtts"] = Loaded["luxtts"]

\* ---------------------------------------------------------------------------
\* a provider whose loaded entry is incomplete

\* C30: with skip_existing set, a provider whose loaded entry lacks the
\* result or the audio file of one sample asked of it is not skipped, and it
\* is run from an empty record: benchmark_sample is then attempted for every
\* sample asked of it that it supports, those with a loaded result and an
\* audio file included, with warmup_runs + iterations calls each.
C30_RerunWholeProvider ==
    [][ /\ (/\ Deciding
            /\ skip_existing
            /\ pc' # "crashed"
            /\ ~Covered(providers[pi], test_texts, languages, DOMAIN audio)) =>
                /\ pc' = "sample"
                /\ si' = 1
                /\ ran_providers' = Append(ran_providers, providers[pi])
                /\ skipped_providers' = skipped_providers
                /\ provider_benchmark' = ProviderBenchmark(providers[pi])
                /\ hist'.attempts = <<>>
        /\ RecordStep =>
                /\ Range(AttemptedIds) =
                      {t.id : t \in Applicable(providers[pi], test_texts, languages)}
                /\ \A j \in 1..Len(hist.attempts) :
                      Len(hist.attempts[j].responses) = warmup_runs + iterations
                /\ calls[providers[pi]] =
                      Len(hist.attempts) * (warmup_runs + iterations)
      ]_vars

\* azure was loaded with a result and an audio file for s1 and none for s2;
\* the run has called it for both samples
C30_Witness ==
    /\ pc = "provider"
    /\ skip_existing
    /\ ran_providers = <<"azure">>
    /\ "azure" \in DOMAIN Loaded
    /\ IdsOf(Loaded["azure"].results) = <<"s1">>
    /\ AttemptedIds = <<"s2", "s1">>
    /\ Len(hist.attempts[2].responses) = total_runs
    /\ calls["azure"] = 2 * total_runs
    /\ "azure" \in DOMAIN results

====
